---- MODULE Spec2Model ----
(***************************************************************************)
(* Verification model of pubmed-cli: the literature synthesis pipeline     *)
(* (internal/synth) and the adaptive retrieval decision engine             *)
(* (internal/qa).                                                          *)
(***************************************************************************)
EXTENDS Integers, Sequences, FiniteSets, TLC

(***************************************************************************)
(* Bounds of the model.                                                    *)
(***************************************************************************)
\* largest number of identifiers one search response carries
MaxDocs == 3
\* largest configured Config.PapersToUse
MaxPapersToUse == 2
\* largest number of tokens in one relevance response of the LLM
MaxRespLen == 2

(***************************************************************************)
(* Program constants.                                                      *)
(***************************************************************************)
\* engine.go:235, relevance.go:63: the neutral score
NeutralScore == 5
DeepDiveRelevance == 10
\* engine.go:32: DefaultConfig().RelevanceThreshold
DefaultRelevanceThreshold == 7
\* relevance.go:59: accepted score range
MinScore == 1
MaxScore == 10

(***************************************************************************)
(* Helpers on sequences.                                                   *)
(***************************************************************************)
Range(s) == {s[i] : i \in 1..Len(s)}

\* all sequences over S of length at most n
SeqsUpTo(S, n) == UNION {[1..k -> S] : k \in 0..n}

\* the order preserving subsequences of s
SubSeqsOf(s) ==
    {q \in SeqsUpTo(Range(s), Len(s)) :
        \E f \in [1..Len(q) -> 1..Len(s)] :
            /\ \A i \in 1..Len(q) : q[i] = s[f[i]]
            /\ \A i, j \in 1..Len(q) : i < j => f[i] < f[j]}

\* the rearrangements of s
Permutations_(s) ==
    {[i \in 1..Len(s) |-> s[f[i]]] :
        f \in {g \in [1..Len(s) -> 1..Len(s)] :
                  \A i, j \in 1..Len(s) : i # j => g[i] # g[j]}}

(***************************************************************************)
(* internal/synth/relevance.go                                             *)
(*                                                                         *)
(* A response of the LLM is a sequence of tokens: a natural number n is    *)
(* the standalone decimal numeral n, and -1 is a token without digits.     *)
(***************************************************************************)
RespTokens == {-1, 0, 3, 7, 9, 10, 11}
Responses == SeqsUpTo(RespTokens, MaxRespLen)

\* scoreRe.FindString: the first standalone numeral 1..10, 0 for no match
RECURSIVE scoreReFindString(_)
scoreReFindString(resp) ==
    IF resp = <<>> THEN 0
    ELSE IF Head(resp) \in 1..9 \/ Head(resp) = 10 THEN Head(resp)
    ELSE scoreReFindString(Tail(resp))

parseScoreNoFallback(resp) == scoreReFindString(resp)
parseScore(resp) ==
    LET match == scoreReFindString(resp) IN
    IF match # 0 /\ match >= MinScore /\ match <= MaxScore
    THEN match
    ELSE NeutralScore

\* What llm.Complete gives back: an error, or a response text.
LLMFail == [ok |-> FALSE, resp |-> <<>>]
LLMOutcomes(isCancelled) ==
    IF isCancelled THEN {LLMFail}
    ELSE {LLMFail} \cup {[ok |-> TRUE, resp |-> r] : r \in Responses}

\* scoreArticleRelevance: (score, err, called), called = a request was sent
scoreArticleRelevance(llmNil, articleNil, out) ==
    IF llmNil THEN [score |-> 0, err |-> TRUE, called |-> FALSE]
    ELSE IF articleNil THEN [score |-> 0, err |-> TRUE, called |-> FALSE]
    ELSE IF ~out.ok THEN [score |-> 0, err |-> TRUE, called |-> TRUE]
    ELSE [score |-> parseScore(out.resp), err |-> FALSE, called |-> TRUE]

(***************************************************************************)
(* internal/synth/engine.go                                                *)
(***************************************************************************)
ThresholdChoices == {NeutralScore, DefaultRelevanceThreshold}

Config == [PapersToUse : 0..MaxPapersToUse,
           RelevanceThreshold : ThresholdChoices,
           llmNil : BOOLEAN]

NoErr == [stage |-> "", cause |-> ""]
NoTokens == [Input |-> 0, Output |-> 0, Total |-> 0]

\* Lengths in characters.  A prompt is its template with the question and
\* the fields of the documents filled in; a response token that is a
\* numeral has the width of the numeral, any other token is a word.
CharsPerToken == 4
ScoringOverhead == 5
ScoringPromptChars(doc) == 400 + 100 * doc
SynthesisPromptChars(papers) == 400 + 300 * Len(papers)
DeepDivePromptChars == 500
TokenChars(t) == IF t < 0 THEN 5 ELSE IF t >= 10 THEN 2 ELSE 1
RECURSIVE RespChars(_)
RespChars(resp) ==
    IF resp = <<>> THEN 0
    ELSE TokenChars(Head(resp)) + (IF Len(resp) > 1 THEN 1 ELSE 0)
            + RespChars(Tail(resp))
SynthesisTexts == {<<>>, <<0 - 1, 0 - 1>>}

\* the token estimate scoreArticleRelevance returns with the result r
tokensUsed(r, promptChars) ==
    IF r.err THEN 0 ELSE promptChars \div CharsPerToken + ScoringOverhead

\* result.Tokens.Total
totalTokensInputOnly(t) == t.Input
totalTokens(t) == t.Input + t.Output
CtxCanceled == "context canceled"
Transport == "transport"
FailCause(isCancelled) == IF isCancelled THEN CtxCanceled ELSE Transport

\* the per-document fallback of scoreRelevance
scoreOrNeutralKeepZero(r) == r.score
scoreOrNeutral(r) == IF r.err THEN NeutralScore ELSE r.score

\* step 4: keep the papers at or above the threshold
filterRelevantAll(sc, threshold) == sc
filterRelevant(sc, threshold) ==
    SelectSeq(sc, LAMBDA sp : sp.RelevanceScore >= threshold)

\* sort.Slice with less(i, j) = score[i] > score[j]: some rearrangement in
\* which no element is less than its predecessor; sort.Slice does not
\* promise any order among equal elements.
IsSortedDesc(s) ==
    \A i \in 1..Len(s) - 1 : ~(s[i + 1].RelevanceScore > s[i].RelevanceScore)
sortSliceUnsorted(s) == {s}
sortSlice(s) == {p \in Permutations_(s) : IsSortedDesc(p)}

\* take top N
takeTopAll(s, n) == s
takeTop(s, n) == IF Len(s) > n THEN SubSeq(s, 1, n) ELSE s

buildReference(article, num, relevance) ==
    [Key |-> num, PMID |-> article, RelevanceScore |-> relevance]

noPapersFoundNever(ids) == FALSE
noPapersFound(ids) == Len(ids) = 0

\* SynthesizePMID: len(articles) == 0
articleNotFoundNever(as) == FALSE
articleNotFound(as) == Len(as) = 0

noneRelevantNever(s) == FALSE
noneRelevant(s) == Len(s) = 0

VARIABLES
    cfg,         \* Engine.cfg and whether Engine.llm is nil
    pc,          \* position of the Synthesize call
    ctx,         \* the caller's context: cancelled, and where it was
    searchIDs,   \* searchResult.IDs
    articles,    \* the fetched articles, by PMID
    scored,      \* the ScoredPaper list built by scoreRelevance
    relevant,    \* the filtered, sorted and truncated list
    calls,       \* the collaborator requests answered so far, in order
    pending,     \* the LLM requests sent and not yet answered
    result,      \* <<>> for a nil *Result, <<r>> for a returned Result
    err,         \* the returned error
    method,      \* the method called: Synthesize or SynthesizePMID
    tokens       \* result.Tokens as counted so far

synthVars == <<cfg, pc, ctx, searchIDs, articles, scored, relevant, calls,
               pending, result, err, method, tokens>>

\* the state of an Answer call of the QA engine
VARIABLES
    qcfg,        \* the QA engine's Config
    question,    \* the question of the Answer call
    qstate,      \* Start, Parametric, Retrieval or Answered
    qsub,        \* position inside the current state
    qres,        \* the Result under construction
    qaux,        \* tentative answer, ids found, assignments of Strategy
    qcalls,      \* the collaborator requests made so far, in order
    qerr         \* the returned error, "" for none

qaVars == <<qcfg, question, qstate, qsub, qres, qaux, qcalls, qerr>>

\* a pure function applied to one input
VARIABLES
    fn,          \* the function under application, "" for none
    fin,         \* its input
    fout         \* <<>> before the application, <<output>> after it

pureVars == <<fn, fin, fout>>

\* one eutils.Client and the goroutines calling its doGet
VARIABLES
    hasKey,      \* Client.apiKey is not empty
    now,         \* the wall clock, in ticks
    mu,          \* Client.mu: 0 when free, else the goroutine holding it
    lastRequest, \* Client.lastRequest
    gor,         \* per goroutine: position in doGet, wake-up time, outcome
    sent         \* the HTTP requests issued so far, with their start times

clientVars == <<hasKey, now, mu, lastRequest, gor, sent>>

\* concurrent Synthesize and SynthesizePMID calls on the Engine of cfg
VARIABLES
    script,      \* per call: which method, and what its collaborators answer
    run          \* per call: position and the local variables of the method

concVars == <<script, run>>

vars == <<synthVars, qaVars, pureVars, clientVars, concVars>>
notSynth == <<qaVars, pureVars, clientVars, concVars>>
notQA == <<synthVars, pureVars, clientVars, concVars>>
notPure == <<synthVars, qaVars, clientVars, concVars>>
notClient == <<synthVars, qaVars, pureVars, concVars>>
notConc == <<synthVars, qaVars, pureVars, clientVars>>

Call(kind, doc, ok) ==
    [kind |-> kind, doc |-> doc, ok |-> ok, cancelled |-> ctx.cancelled]
\* a request to llm.Complete with the lengths of its prompt and response
LLMCall(kind, doc, ok, promptChars, respChars) ==
    [kind |-> kind, doc |-> doc, ok |-> ok, cancelled |-> ctx.cancelled,
     sent |-> promptChars, recv |-> respChars]

Fail(stage, cause) ==
    /\ pc' = "done"
    /\ result' = <<>>
    /\ err' = [stage |-> stage, cause |-> cause]

\* where the call goes when the collaborator request made at p fails:
\* "return nil, fmt.Errorf(...)"
onCollaboratorErrorRetry(p) == p
onCollaboratorError(p) == "done"

FailAt(p, stage, cause) ==
    /\ pc' = onCollaboratorError(p)
    /\ result' = <<>>
    /\ err' = [stage |-> stage, cause |-> cause]

\* where the call is while llm.Complete has not returned
awaitResponseNoWait(p) == p
awaitResponse(p) == IF p = "score" THEN "scoreWait" ELSE "synthWait"

\* the caller cancels the context while the call is running
Cancel ==
    /\ pc # "done"
    /\ ~ctx.cancelled
    /\ ctx' = [cancelled |-> TRUE, atPc |-> pc, atScored |-> Len(scored)]
    /\ UNCHANGED <<cfg, pc, searchIDs, articles, scored, relevant, calls,
                   pending, result, err>>
    /\ UNCHANGED <<method, tokens>>
    /\ UNCHANGED notSynth

\* Synthesize step 1: e.eutils.Search
Search ==
    /\ pc = "search"
    /\ \/ /\ calls' = Append(calls, Call("search", 0, FALSE))
          /\ FailAt("search", "search", FailCause(ctx.cancelled))
          /\ UNCHANGED searchIDs
       \/ /\ ~ctx.cancelled
          /\ \E n \in 0..MaxDocs :
                /\ searchIDs' = [i \in 1..n |-> i]
                /\ calls' = Append(calls, Call("search", 0, TRUE))
                /\ IF noPapersFound(searchIDs')
                   THEN Fail("no papers found", "")
                   ELSE /\ pc' = "fetch"
                        /\ UNCHANGED <<result, err>>
    /\ UNCHANGED <<cfg, ctx, articles, scored, relevant, pending>>
    /\ UNCHANGED <<method, tokens>>
    /\ UNCHANGED notSynth

\* Synthesize step 2: e.eutils.Fetch
Fetch ==
    /\ pc = "fetch"
    /\ \/ /\ calls' = Append(calls, Call("fetch", 0, FALSE))
          /\ FailAt("fetch", "fetch", FailCause(ctx.cancelled))
          /\ UNCHANGED articles
       \/ /\ ~ctx.cancelled
          /\ \E as \in SubSeqsOf(searchIDs) :
                /\ articles' = as
                /\ calls' = Append(calls, Call("fetch", 0, TRUE))
                /\ pc' = "score"
                /\ UNCHANGED <<result, err>>
    /\ UNCHANGED <<cfg, ctx, searchIDs, scored, relevant, pending>>
    /\ UNCHANGED <<method, tokens>>
    /\ UNCHANGED notSynth

\* scoreRelevance: an iteration of the loop over the articles starts;
\* scoreArticleRelevance sends its request, or returns at once without an
\* LLM client
ScoreRequest ==
    /\ pc = "score"
    /\ Len(scored) < Len(articles)
    /\ LET article == articles[Len(scored) + 1] IN
       IF cfg.llmNil
       THEN LET r == scoreArticleRelevance(TRUE, FALSE, LLMFail) IN
            /\ scored' = Append(scored, [Article |-> article,
                                         RelevanceScore |-> scoreOrNeutral(r)])
            /\ UNCHANGED <<pc, pending>>
       ELSE /\ pending' = Append(pending,
                                 [kind |-> "score", doc |-> article,
                                  chars |-> ScoringPromptChars(article)])
            /\ pc' = awaitResponse("score")
            /\ UNCHANGED scored
    /\ UNCHANGED <<cfg, ctx, searchIDs, articles, relevant, calls, result, err>>
    /\ UNCHANGED <<method, tokens>>
    /\ UNCHANGED notSynth

\* scoreRelevance: llm.Complete returns and the iteration ends
ScoreOne ==
    /\ pc = "scoreWait"
    /\ LET article == articles[Len(scored) + 1] IN
       \E out \in LLMOutcomes(ctx.cancelled) :
          LET r == scoreArticleRelevance(cfg.llmNil, FALSE, out) IN
          /\ scored' = Append(scored, [Article |-> article,
                                       RelevanceScore |-> scoreOrNeutral(r)])
          /\ calls' = Append(calls, LLMCall("score", article, ~r.err,
                                            pending[1].chars,
                                            RespChars(out.resp)))
          /\ tokens' = [tokens EXCEPT
                           !.Input = @ + tokensUsed(r, pending[1].chars)]
          /\ pending' = Tail(pending)
          /\ pc' = "score"
    /\ UNCHANGED <<cfg, ctx, searchIDs, articles, relevant, result, err>>
    /\ UNCHANGED method
    /\ UNCHANGED notSynth

\* scoreRelevance returns; Synthesize steps 4 and 5: filter, sort, take the
\* top N, fail when nothing is left, build the references
Rank ==
    /\ pc = "score"
    /\ Len(scored) = Len(articles)
    /\ \E sorted \in sortSlice(filterRelevant(scored, cfg.RelevanceThreshold)) :
          LET top == takeTop(sorted, cfg.PapersToUse) IN
          IF noneRelevant(top)
          THEN /\ Fail("no papers met relevance threshold", "")
               /\ UNCHANGED relevant
          ELSE /\ relevant' = top
               /\ pc' = "synth"
               /\ UNCHANGED <<result, err>>
    /\ UNCHANGED <<cfg, ctx, searchIDs, articles, scored, calls, pending>>
    /\ UNCHANGED <<method, tokens>>
    /\ UNCHANGED notSynth

References(rel) ==
    [i \in 1..Len(rel) |-> buildReference(rel[i].Article, i,
                                          rel[i].RelevanceScore)]

\* Synthesize step 6: generateSynthesis sends its request
SynthesisRequest ==
    /\ pc = "synth"
    /\ IF cfg.llmNil
       THEN /\ Fail("panic", "nil pointer dereference")
            /\ UNCHANGED pending
       ELSE /\ pending' = Append(pending,
                                 [kind |-> "synth", doc |-> 0,
                                  chars |-> SynthesisPromptChars(relevant)])
            /\ pc' = awaitResponse("synth")
            /\ UNCHANGED <<result, err>>
    /\ UNCHANGED <<cfg, ctx, searchIDs, articles, scored, relevant, calls>>
    /\ UNCHANGED <<method, tokens>>
    /\ UNCHANGED notSynth

\* Synthesize step 6 and the return: llm.Complete returns
GenerateSynthesis ==
    /\ pc = "synthWait"
    /\ \E out \in {o \in LLMOutcomes(ctx.cancelled) :
                       o.resp \in SynthesisTexts} :
          /\ calls' = Append(calls, LLMCall("synth", 0, out.ok,
                                            pending[1].chars,
                                            RespChars(out.resp)))
          /\ pending' = Tail(pending)
          /\ IF ~out.ok
             THEN /\ FailAt("synth", "synthesis", FailCause(ctx.cancelled))
                  /\ UNCHANGED tokens
             ELSE /\ pc' = "done"
                  /\ err' = NoErr
                  /\ LET out4 == RespChars(out.resp) \div CharsPerToken
                         t == [tokens EXCEPT !.Output = @ + out4]
                     IN tokens' = [t EXCEPT !.Total = totalTokens(t)]
                  /\ result' = <<[PapersSearched |-> Len(searchIDs),
                                  PapersScored |-> Len(scored),
                                  PapersUsed |-> Len(relevant),
                                  References |-> References(relevant),
                                  Tokens |-> tokens']>>
    /\ UNCHANGED <<cfg, ctx, searchIDs, articles, scored, relevant>>
    /\ UNCHANGED method
    /\ UNCHANGED notSynth

\* SynthesizePMID: e.eutils.Fetch of the one identifier
DeepFetch ==
    /\ pc = "deepFetch"
    /\ \/ /\ calls' = Append(calls, Call("fetch", 1, FALSE))
          /\ FailAt("deepFetch", "fetch", FailCause(ctx.cancelled))
          /\ UNCHANGED articles
       \/ /\ ~ctx.cancelled
          /\ \E n \in 0..1 :
                /\ articles' = [i \in 1..n |-> 1]
                /\ calls' = Append(calls, Call("fetch", 1, TRUE))
                /\ IF articleNotFound(articles')
                   THEN Fail("article not found", "")
                   ELSE /\ pc' = "deepSynth"
                        /\ UNCHANGED <<result, err>>
    /\ UNCHANGED <<cfg, ctx, searchIDs, scored, relevant, pending>>
    /\ UNCHANGED <<method, tokens>>
    /\ UNCHANGED notSynth

\* SynthesizePMID: e.llm.Complete is called with the deep-dive prompt
DeepRequest ==
    /\ pc = "deepSynth"
    /\ IF cfg.llmNil
       THEN /\ Fail("panic", "nil pointer dereference")
            /\ UNCHANGED pending
       ELSE /\ pending' = Append(pending,
                                 [kind |-> "synth", doc |-> 1,
                                  chars |-> DeepDivePromptChars])
            /\ pc' = "deepWait"
            /\ UNCHANGED <<result, err>>
    /\ UNCHANGED <<cfg, ctx, searchIDs, articles, scored, relevant, calls>>
    /\ UNCHANGED <<method, tokens>>
    /\ UNCHANGED notSynth

\* SynthesizePMID: llm.Complete returns, and the return of the method
DeepDive ==
    /\ pc = "deepWait"
    /\ \E out \in {o \in LLMOutcomes(ctx.cancelled) :
                       o.resp \in SynthesisTexts} :
          /\ calls' = Append(calls, LLMCall("synth", pending[1].doc, out.ok,
                                            pending[1].chars,
                                            RespChars(out.resp)))
          /\ pending' = Tail(pending)
          /\ IF ~out.ok
             THEN /\ FailAt("deepWait", "synthesis", FailCause(ctx.cancelled))
                  /\ UNCHANGED tokens
             ELSE /\ pc' = "done"
                  /\ err' = NoErr
                  /\ LET t == [Input |-> pending[1].chars \div CharsPerToken,
                               Output |-> RespChars(out.resp)
                                             \div CharsPerToken,
                               Total |-> 0]
                     IN tokens' = [t EXCEPT !.Total = totalTokens(t)]
                  /\ result' = <<[PapersSearched |-> 1,
                                  PapersScored |-> 1,
                                  PapersUsed |-> 1,
                                  References |->
                                     <<buildReference(articles[1], 1,
                                                      DeepDiveRelevance)>>,
                                  Tokens |-> tokens']>>
    /\ UNCHANGED <<cfg, ctx, searchIDs, articles, scored, relevant>>
    /\ UNCHANGED method
    /\ UNCHANGED notSynth

(***************************************************************************)
(* internal/qa: the adaptive retrieval engine (Engine.Answer).             *)
(*                                                                         *)
(* A question is a sequence of tokens: [w |-> word, n |-> 0] is a word in  *)
(* lower case (letters, or letters and digits run together), and           *)
(* [w |-> "", n |-> k] is the standalone numeral k.                        *)
(***************************************************************************)
\* largest configured Config.MaxResults of the QA engine
MaxQAResults == 2

\* the first year DetectNovelty treats as recent
RecentYearFrom == 2024
\* DefaultConfig().ConfidenceThreshold of the QA engine
DefaultConfidenceThreshold == 7

W(s) == [w |-> s, n |-> 0]
N(k) == [w |-> "", n |-> k]

RecencyWords == {"recent", "latest"}
RecencyPhrases == {<<"new", "study">>, <<"new", "research">>,
                   <<"newly", "published">>, <<"this", "year">>,
                   <<"last", "month">>, <<"just", "published">>}

DetectNovelty(q) ==
    \/ \E i \in 1..Len(q) :
          /\ q[i].w = ""
          /\ q[i].n >= 1000 /\ q[i].n <= 9999
          /\ q[i].n >= RecentYearFrom
    \/ \E i \in 1..Len(q) : q[i].w \in RecencyWords
    \/ \E i \in 1..Len(q) - 1 : <<q[i].w, q[i + 1].w>> \in RecencyPhrases

Questions ==
    { <<W("does"), W("aspirin"), W("help")>>,
      <<W("according"), N(2025), W("study")>>,
      <<W("published"), N(2023)>>,
      <<W("recent"), W("advances")>>,
      <<W("did"), W("new"), W("study")>>,
      <<W("trial"), W("nct2024")>> }

Answers == {"yes", "no"}
\* the number on the CONFIDENCE line of a response; -1: no number there
ConfTokens == {-1, 3, 7, 9, 11}

parseConfidence(tok) ==
    IF tok >= MinScore /\ tok <= MaxScore THEN tok ELSE NeutralScore

QAConfig == [ForceParametric : BOOLEAN,
             ForceRetrieval : BOOLEAN,
             ConfidenceThreshold : {NeutralScore, DefaultConfidenceThreshold},
             MaxResults : 1..MaxQAResults]

\* transition rules 1 to 3 of the decision, in priority order; "ask" is
\* rule 4, the confidence request
decideRetrievalFirst(c, novel) ==
    IF c.ForceRetrieval THEN "retrieval"
    ELSE IF c.ForceParametric THEN "parametric"
    ELSE IF novel THEN "retrieval"
    ELSE "ask"
decideIgnoreNovelty(c, novel) ==
    IF c.ForceParametric THEN "parametric"
    ELSE IF c.ForceRetrieval THEN "retrieval"
    ELSE "ask"
decide(c, novel) ==
    IF c.ForceParametric THEN "parametric"
    ELSE IF c.ForceRetrieval THEN "retrieval"
    ELSE IF novel THEN "retrieval"
    ELSE "ask"

\* rule 4: the confidence gate
confidentStrict(conf, threshold) == conf > threshold
confident(conf, threshold) == conf >= threshold

\* the strategy the result carries after the zero-document fallback
fallbackStrategyParametric(s) == "parametric"
fallbackStrategy(s) == s

\* what a search with no documents is turned into
emptySearchFails(n) == IF n = 0 THEN "error" ELSE "fetch"
emptySearch(n) == IF n = 0 THEN "fallback" ELSE "fetch"

SetStrategy(s, novel, conf, tentative) ==
    /\ qres' = [qres EXCEPT !.Strategy = s, !.NovelDetected = novel,
                            !.Confidence = conf]
    /\ qaux' = [qaux EXCEPT !.tentative = tentative,
                            !.strategySets = @ + 1]
    /\ qstate' = IF s = "parametric" THEN "Parametric" ELSE "Retrieval"
    /\ qsub' = IF s = "parametric" THEN "answer" ELSE "search"

\* Start: the decision, rules 1 to 4
QADecide ==
    /\ qstate = "Start" /\ qerr = ""
    /\ LET novel == DetectNovelty(question)
           d == decide(qcfg, novel) IN
       IF d # "ask"
       THEN /\ SetStrategy(d, novel, 0, "")
            /\ UNCHANGED <<qcalls, qerr>>
       ELSE \/ /\ qcalls' = Append(qcalls, "confidence")
               /\ qerr' = "confidence"
               /\ qres' = [qres EXCEPT !.NovelDetected = novel]
               /\ UNCHANGED <<qstate, qsub, qaux>>
            \/ \E tok \in ConfTokens, ans \in Answers :
                  LET conf == parseConfidence(tok) IN
                  /\ qcalls' = Append(qcalls, "confidence")
                  /\ IF confident(conf, qcfg.ConfidenceThreshold)
                     THEN SetStrategy("parametric", novel, conf, ans)
                     ELSE SetStrategy("retrieval", novel, conf, "")
                  /\ UNCHANGED qerr
    /\ UNCHANGED <<qcfg, question>>
    /\ UNCHANGED notQA

\* Parametric: the tentative answer, or one generation request
QAParametricAnswer ==
    /\ qstate = "Parametric" /\ qerr = ""
    /\ IF qaux.tentative # ""
       THEN /\ qres' = [qres EXCEPT !.Answer = qaux.tentative]
            /\ qstate' = "Answered"
            /\ UNCHANGED <<qcalls, qerr>>
       ELSE \/ /\ qcalls' = Append(qcalls, "answer")
               /\ qerr' = "generation"
               /\ UNCHANGED <<qres, qstate>>
            \/ \E ans \in Answers :
                  /\ qcalls' = Append(qcalls, "answer")
                  /\ qres' = [qres EXCEPT !.Answer = ans]
                  /\ qstate' = "Answered"
                  /\ UNCHANGED qerr
    /\ UNCHANGED <<qcfg, question, qsub, qaux>>
    /\ UNCHANGED notQA

\* Retrieval: expand the query and search
QASearch ==
    /\ qstate = "Retrieval" /\ qsub = "search" /\ qerr = ""
    /\ qcalls' = Append(qcalls, "search")
    /\ \/ /\ qerr' = "search"
          /\ UNCHANGED <<qsub, qaux>>
       \/ \E n \in 0..qcfg.MaxResults :
             /\ qaux' = [qaux EXCEPT !.ids = [i \in 1..n |-> i],
                                     !.searched = TRUE]
             /\ IF emptySearch(n) = "error"
                THEN qerr' = "no results" /\ UNCHANGED qsub
                ELSE qsub' = emptySearch(n) /\ UNCHANGED qerr
    /\ UNCHANGED <<qcfg, question, qstate, qres>>
    /\ UNCHANGED notQA

\* Retrieval, no documents: the final parametric answer without evidence
QAFallback ==
    /\ qstate = "Retrieval" /\ qsub = "fallback" /\ qerr = ""
    /\ qcalls' = Append(qcalls, "answer")
    /\ \/ /\ qerr' = "generation"
          /\ UNCHANGED <<qres, qstate>>
       \/ \E ans \in Answers :
             /\ qres' = [qres EXCEPT !.Answer = ans,
                             !.Strategy = fallbackStrategy(qres.Strategy)]
             /\ qstate' = "Answered"
             /\ UNCHANGED qerr
    /\ UNCHANGED <<qcfg, question, qsub, qaux>>
    /\ UNCHANGED notQA

\* Retrieval: fetch the documents found
QAFetch ==
    /\ qstate = "Retrieval" /\ qsub = "fetch" /\ qerr = ""
    /\ qcalls' = Append(qcalls, "fetch")
    /\ \/ /\ qerr' = "fetch"
          /\ UNCHANGED <<qsub, qres>>
       \/ \E docs \in SubSeqsOf(qaux.ids) :
             /\ qres' = [qres EXCEPT !.SourcePMIDs = docs,
                                     !.MinifiedContext = docs]
             /\ qsub' = "final"
             /\ UNCHANGED qerr
    /\ UNCHANGED <<qcfg, question, qstate, qaux>>
    /\ UNCHANGED notQA

\* Retrieval: the final answer conditioned on the evidence
QAFinalAnswer ==
    /\ qstate = "Retrieval" /\ qsub = "final" /\ qerr = ""
    /\ qcalls' = Append(qcalls, "final")
    /\ \/ /\ qerr' = "generation"
          /\ UNCHANGED <<qres, qstate>>
       \/ \E ans \in Answers :
             /\ qres' = [qres EXCEPT !.Answer = ans]
             /\ qstate' = "Answered"
             /\ UNCHANGED qerr
    /\ UNCHANGED <<qcfg, question, qsub, qaux>>
    /\ UNCHANGED notQA

NoContext == [cancelled |-> FALSE, atPc |-> "", atScored |-> 0]
EmptyResult == [Answer |-> "", Confidence |-> 0, Strategy |-> "",
                NovelDetected |-> FALSE, SourcePMIDs |-> <<>>,
                MinifiedContext |-> <<>>]
EmptyAux == [tentative |-> "", ids |-> <<>>, strategySets |-> 0,
             searched |-> FALSE]

\* a Synthesize call is about to start on an Engine built by NewEngine
Init ==
    /\ cfg \in Config
    /\ pc = "search"
    /\ ctx = NoContext
    /\ searchIDs = <<>>
    /\ articles = <<>>
    /\ scored = <<>>
    /\ relevant = <<>>
    /\ calls = <<>>
    /\ pending = <<>>
    /\ result = <<>>
    /\ err = NoErr
    /\ method = "Synthesize"
    /\ tokens = NoTokens
    /\ qcfg = [ForceParametric |-> FALSE, ForceRetrieval |-> FALSE,
               ConfidenceThreshold |-> DefaultConfidenceThreshold,
               MaxResults |-> 1]
    /\ question = <<>>
    /\ qstate = "Start"
    /\ qsub = ""
    /\ qres = EmptyResult
    /\ qaux = EmptyAux
    /\ qcalls = <<>>
    /\ qerr = ""
    /\ fn = ""
    /\ fin = <<>>
    /\ fout = <<>>
    /\ hasKey = FALSE
    /\ now = 0
    /\ mu = 0
    /\ lastRequest = 0
    /\ gor = <<>>
    /\ sent = <<>>
    /\ script = <<>>
    /\ run = <<>>

NextSynth ==
    \/ Cancel
    \/ Search
    \/ Fetch
    \/ ScoreRequest
    \/ ScoreOne
    \/ Rank
    \/ SynthesisRequest
    \/ GenerateSynthesis

Spec == Init /\ [][NextSynth]_vars

\* a call of Synthesize or of SynthesizePMID is about to start
InitAPI ==
    /\ cfg \in Config
    /\ method \in {"Synthesize", "SynthesizePMID"}
    /\ pc = IF method = "Synthesize" THEN "search" ELSE "deepFetch"
    /\ ctx = NoContext
    /\ searchIDs = <<>>
    /\ articles = <<>>
    /\ scored = <<>>
    /\ relevant = <<>>
    /\ calls = <<>>
    /\ pending = <<>>
    /\ result = <<>>
    /\ err = NoErr
    /\ tokens = NoTokens
    /\ qcfg = [ForceParametric |-> FALSE, ForceRetrieval |-> FALSE,
               ConfidenceThreshold |-> DefaultConfidenceThreshold,
               MaxResults |-> 1]
    /\ question = <<>>
    /\ qstate = "Start"
    /\ qsub = ""
    /\ qres = EmptyResult
    /\ qaux = EmptyAux
    /\ qcalls = <<>>
    /\ qerr = ""
    /\ fn = ""
    /\ fin = <<>>
    /\ fout = <<>>
    /\ hasKey = FALSE
    /\ now = 0
    /\ mu = 0
    /\ lastRequest = 0
    /\ gor = <<>>
    /\ sent = <<>>
    /\ script = <<>>
    /\ run = <<>>

NextAPI ==
    \/ Cancel
    \/ Search
    \/ Fetch
    \/ ScoreRequest
    \/ ScoreOne
    \/ Rank
    \/ SynthesisRequest
    \/ GenerateSynthesis
    \/ DeepFetch
    \/ DeepRequest
    \/ DeepDive

SpecAPI == InitAPI /\ [][NextAPI]_vars

\* an Answer call is about to start on a QA engine built by NewEngine
InitQA ==
    /\ qcfg \in QAConfig
    /\ question \in Questions
    /\ qstate = "Start"
    /\ qsub = ""
    /\ qres = EmptyResult
    /\ qaux = EmptyAux
    /\ qcalls = <<>>
    /\ qerr = ""
    /\ cfg = [PapersToUse |-> 1,
              RelevanceThreshold |-> DefaultRelevanceThreshold,
              llmNil |-> FALSE]
    /\ pc = "idle"
    /\ ctx = NoContext
    /\ searchIDs = <<>>
    /\ articles = <<>>
    /\ scored = <<>>
    /\ relevant = <<>>
    /\ calls = <<>>
    /\ pending = <<>>
    /\ result = <<>>
    /\ err = NoErr
    /\ method = "Synthesize"
    /\ tokens = NoTokens
    /\ fn = ""
    /\ fin = <<>>
    /\ fout = <<>>
    /\ hasKey = FALSE
    /\ now = 0
    /\ mu = 0
    /\ lastRequest = 0
    /\ gor = <<>>
    /\ sent = <<>>
    /\ script = <<>>
    /\ run = <<>>

NextQA ==
    \/ QADecide
    \/ QAParametricAnswer
    \/ QASearch
    \/ QAFallback
    \/ QAFetch
    \/ QAFinalAnswer

SpecQA == InitQA /\ [][NextQA]_vars

(***************************************************************************)
(* Strings of the citation formats are sequences of characters; a          *)
(* character is a one-letter string, and the letters outside ASCII are     *)
(* named by their code point.                                              *)
(***************************************************************************)
MaxRefs == 3
MaxFieldLen == 2
MaxKeyLen == 64
RISAbstractLimit == 5000

Letters == <<"a", "b", "c", "d", "e", "f", "g", "h", "i", "j", "k", "l", "m",
             "n", "o", "p", "q", "r", "s", "t", "u", "v", "w", "x", "y", "z">>
UpperLetters == {"R", "U"}
Digits == <<"0", "1", "2", "3", "4", "5", "6", "7", "8", "9">>
ASCIIDigits == Range(Digits)
ArabicIndicTwo == "U+0662"
EAcute == "U+00E9"
IsDigit(c) == c \in ASCIIDigits \cup {ArabicIndicTwo}
IsASCIIAlnum(c) == c \in Range(Letters) \cup UpperLetters \cup ASCIIDigits
IsSpace(c) == c \in {" ", "\n", "\r", "\t"}

\* strconv.Itoa of a natural number
RECURSIVE Itoa(_)
Itoa(n) ==
    IF n < 10 THEN <<Digits[n + 1]>>
    ELSE Itoa(n \div 10) \o <<Digits[(n % 10) + 1]>>

\* strings.TrimSpace
RECURSIVE TrimLeft(_)
TrimLeft(str) ==
    IF str # <<>> /\ IsSpace(Head(str)) THEN TrimLeft(Tail(str)) ELSE str
RECURSIVE TrimRight(_)
TrimRight(str) ==
    IF str # <<>> /\ IsSpace(str[Len(str)])
    THEN TrimRight(SubSeq(str, 1, Len(str) - 1))
    ELSE str
TrimSpace(str) == TrimRight(TrimLeft(str))

\* strings.Index for one character: 0 when it does not occur
Index(str, c) ==
    IF \E i \in 1..Len(str) : str[i] = c
    THEN CHOOSE i \in 1..Len(str) :
            str[i] = c /\ \A j \in 1..(i - 1) : str[j] # c
    ELSE 0

\* the last element of strings.Fields, <<>> when there is no field
LastField(str) ==
    LET t == TrimRight(str)
        spaces == {i \in 1..Len(t) : IsSpace(t[i])}
        from == IF spaces = {} THEN 1
                ELSE 1 + CHOOSE i \in spaces : \A j \in spaces : j <= i
    IN SubSeq(t, from, Len(t))

\* " & " and " et al." are single characters of the model
Ampersand == " & "
EtAl == " et al."

\* strings.Split(s, sep) for a separator that is one character of the model
RECURSIVE Split(_, _)
Split(str, sep) ==
    LET i == Index(str, sep) IN
    IF i = 0 THEN <<str>>
    ELSE <<SubSeq(str, 1, i - 1)>> \o Split(SubSeq(str, i + 1, Len(str)), sep)

(***************************************************************************)
(* internal/synth/bibtex.go                                                *)
(***************************************************************************)
Unknown == <<"U", "n", "k", "n", "o", "w", "n">>
NoDate == <<"n", "d">>
RefPrefix == <<"R", "e", "f">>

bibtexKeyAuthorToken(author) ==
    LET a == TrimSpace(author)
        idx == Index(a, ",")
        cut == IF idx > 0 THEN SubSeq(a, 1, idx - 1) ELSE a
    IN IF a = <<>> THEN Unknown
       ELSE IF LastField(cut) = <<>> THEN Unknown
       ELSE LastField(cut)

yearForBibTeXKey(year) ==
    LET r == TrimSpace(year)
        runs == {i \in 1..(Len(r) - 3) : \A k \in 0..3 : IsDigit(r[i + k])}
    IN IF r = <<>> \/ runs = {} THEN NoDate
       ELSE LET i == CHOOSE x \in runs : \A y \in runs : x <= y
            IN SubSeq(r, i, i + 3)

sanitizeBibTeXKey(str) ==
    LET out == SelectSeq(TrimSpace(str), IsASCIIAlnum)
        pre == IF out # <<>> /\ out[1] \in ASCIIDigits
               THEN RefPrefix \o out ELSE out
    IN IF Len(pre) > MaxKeyLen THEN SubSeq(pre, 1, MaxKeyLen) ELSE pre

bibtexCitationKeyBase(ref) ==
    LET authorStr == TrimSpace(ref.Authors)
        firstAuthor ==
            IF Len(ref.AuthorsList) > 0 THEN ref.AuthorsList[1]
            ELSE IF Index(authorStr, Ampersand) > 0
                 THEN TrimSpace(Split(authorStr, Ampersand)[1])
            ELSE IF Index(authorStr, EtAl) > 0
                 THEN TrimSpace(Split(authorStr, EtAl)[1])
            ELSE authorStr
        year == yearForBibTeXKey(ref.Year)
        base == sanitizeBibTeXKey(bibtexKeyAuthorToken(firstAuthor) \o year)
    IN IF base = <<>> THEN RefPrefix \o year ELSE base

RECURSIVE alphaLoop(_, _)
alphaLoop(n, out) ==
    LET o == <<Letters[(n % 26) + 1]>> \o out
        m == (n \div 26) - 1
    IN IF m < 0 THEN o ELSE alphaLoop(m, o)
alphaSuffix(n) == IF n <= 0 THEN <<>> ELSE alphaLoop(n - 1, <<>>)

\* seen[base], kept as the list of the bases met so far
Seen(seen, base) == Cardinality({j \in 1..Len(seen) : seen[j] = base})

RECURSIVE keysLoop(_, _, _, _)
keysLoop(refs, i, seen, keys) ==
    IF i > Len(refs) THEN keys
    ELSE LET b == bibtexCitationKeyBase(refs[i])
             base == IF b = <<>> THEN RefPrefix \o Itoa(i) ELSE b
             dup == Seen(seen, base)
             key == IF dup = 0 THEN base ELSE base \o alphaSuffix(dup)
         IN keysLoop(refs, i + 1, Append(seen, base), Append(keys, key))
generateBibTeXCitationKeys(refs) == keysLoop(refs, 1, <<>>, <<>>)

BibAuthors == {<<"a">>, <<"a", "a">>, <<EAcute>>}
BibAuthorStrings == {<<>>, <<"b", " ", "a", EtAl>>}
BibYears == {<<>>, <<"2", "0", "2", "0">>,
             <<ArabicIndicTwo, ArabicIndicTwo, ArabicIndicTwo, ArabicIndicTwo>>}
BibRefs == [AuthorsList : {<<>>} \cup {<<a>> : a \in BibAuthors},
            Authors : BibAuthorStrings,
            Year : BibYears]
BibInputs == SeqsUpTo(BibRefs, MaxRefs)

(***************************************************************************)
(* RIS records: internal/synth/ris.go, and the later revision of the same  *)
(* file that passes every field value through sanitizeRIS.                 *)
(***************************************************************************)
Revisions == {"ris.go", "sanitizing"}
RISTags == {"TY  - JOUR", "AU  - ", "TI  - ", "JO  - ", "PY  - ", "DO  - ",
            "AN  - ", "AB  - ", "DB  - ", "UR  - ", "ER  -"}

\* strings.ReplaceAll of one character by another
ReplaceAll(str, old, new) ==
    [i \in 1..Len(str) |-> IF str[i] = old THEN new ELSE str[i]]

\* strings.ReplaceAll(s, "\r\n", " ")
RECURSIVE ReplaceCRLF(_)
ReplaceCRLF(str) ==
    IF Len(str) < 2 THEN str
    ELSE IF str[1] = "\r" /\ str[2] = "\n"
         THEN <<" ">> \o ReplaceCRLF(SubSeq(str, 3, Len(str)))
         ELSE <<str[1]>> \o ReplaceCRLF(Tail(str))

sanitizeRIS(str) ==
    TrimSpace(ReplaceAll(ReplaceAll(ReplaceAll(ReplaceCRLF(str),
                                               "\n", " "), "\r", " "),
                         "\t", " "))

NonEmptyTrimmed(parts) ==
    SelectSeq([i \in 1..Len(parts) |-> TrimSpace(parts[i])],
              LAMBDA a : a # <<>>)

parseAuthorsForRIS(rev, authorStr0) ==
    LET authorStr == IF rev = "sanitizing" THEN TrimSpace(authorStr0)
                     ELSE authorStr0
        first == TrimSpace(Split(authorStr, EtAl)[1])
        split == NonEmptyTrimmed(Split(authorStr, Ampersand))
    IN IF authorStr = <<>> THEN <<Unknown>>
       ELSE IF Index(authorStr, EtAl) > 0 /\ first # <<>> THEN <<first>>
       ELSE IF Index(authorStr, Ampersand) > 0
               /\ (rev = "ris.go" \/ Len(split) > 0) THEN split
       ELSE <<authorStr>>

\* strings.Join(lines, "\n")
RECURSIVE Join(_)
Join(lines) ==
    IF lines = <<>> THEN <<>>
    ELSE IF Len(lines) = 1 THEN lines[1]
    ELSE lines[1] \o <<"\n">> \o Join(Tail(lines))

Truncated(abstract) ==
    IF Len(abstract) > RISAbstractLimit
    THEN SubSeq(abstract, 1, RISAbstractLimit) \o <<".", ".", ".">>
    ELSE abstract

generateRISEntry(rev, ref) ==
    LET val(v) == IF rev = "sanitizing" THEN sanitizeRIS(v) ELSE v
        authors == parseAuthorsForRIS(rev, ref.Authors)
        opt(tag, v) == IF v # <<>> THEN <<<<tag>> \o val(v)>> ELSE <<>>
        lines ==
            <<<<"TY  - JOUR">>>>
            \o [i \in 1..Len(authors) |-> <<"AU  - ">> \o val(authors[i])]
            \o <<<<"TI  - ">> \o val(ref.Title)>>
            \o opt("JO  - ", ref.Journal)
            \o opt("PY  - ", ref.Year)
            \o opt("DO  - ", ref.DOI)
            \o opt("AN  - ", ref.PMID)
            \o (IF ref.Abstract # <<>>
                THEN <<<<"AB  - ">> \o val(Truncated(ref.Abstract))>>
                ELSE <<>>)
            \o <<<<"DB  - ", "PubMed">>>>
            \o (IF ref.PMID # <<>>
                THEN <<<<"UR  - ", "https://pubmed.ncbi.nlm.nih.gov/">>
                         \o val(ref.PMID) \o <<"/">>>>
                ELSE <<>>)
            \o <<<<"ER  -">>>>
    IN Join(lines)

\* the lines of a text, as a reader of the format sees them
Lines(text) == Split(text, "\n")

RISTextChars == {"x", "\n", "\r", "\t"}
RISAuthorChars == {"x", "\n", Ampersand, EtAl}
RISOptional == {<<>>, <<"x">>}
RISRefs == [Authors : SeqsUpTo(RISAuthorChars, MaxFieldLen),
            Title : SeqsUpTo(RISTextChars, MaxFieldLen),
            Journal : RISOptional, Year : RISOptional, DOI : RISOptional,
            PMID : {<<>>, <<"1">>},
            Abstract : {<<>>, <<"x", "\n", "x">>}]
RISInputs == [rev : Revisions, ref : RISRefs]

(***************************************************************************)
(* cmd/pubmed, the synth command: runSynth in the two revisions kept in    *)
(* src/unnamed/part_000.  The revision "validating" checks the flags and   *)
(* raises --search to --papers; the revision "plain" copies the flags.     *)
(***************************************************************************)
MaxFlag == 3
CLIRevisions == {"validating", "plain"}
Flags == [papers : 0..MaxFlag, search : 0..MaxFlag, words : 0..1,
          relevance : {MinScore - 1, DefaultRelevanceThreshold, MaxScore + 1}]
RunSynthInputs == [rev : CLIRevisions, flags : Flags]

\* SearchOptions.Limit of the search request of Engine.Synthesize
SearchLimit(c) == c.PapersToSearch

RunFailed(msg) ==
    [err |-> msg, PapersToUse |-> 0, PapersToSearch |-> 0, Limit |-> 0]

runSynth(rev, f) ==
    LET synthFlagSearch ==
            IF rev = "validating" /\ f.papers > f.search THEN f.papers
            ELSE f.search
        c == [PapersToUse |-> f.papers, PapersToSearch |-> synthFlagSearch]
    IN IF rev = "validating" /\ f.papers < 1
       THEN RunFailed("--papers must be >= 1")
       ELSE IF rev = "validating" /\ f.search < 1
       THEN RunFailed("--search must be >= 1")
       ELSE IF rev = "validating" /\ f.words < 1
       THEN RunFailed("--words must be >= 1")
       ELSE IF rev = "validating"
               /\ (f.relevance < MinScore \/ f.relevance > MaxScore)
       THEN RunFailed("--relevance must be 1-10")
       ELSE [err |-> "", PapersToUse |-> c.PapersToUse,
             PapersToSearch |-> c.PapersToSearch, Limit |-> SearchLimit(c)]

(***************************************************************************)
(* internal/synth/engine.go: formatAPA and initials.                       *)
(***************************************************************************)
MaxAuthors == 8
APAMaxListed == 7
APAFirstListed == 6
APAAuthors == {[LastName |-> <<"a">>, ForeName |-> <<"b">>],
               [LastName |-> <<"c">>, ForeName |-> <<"d", " ", "e">>]}
APAArticles == [Authors : SeqsUpTo(APAAuthors, MaxAuthors),
                Year : {<<"2">>}, Title : {<<"t">>}, Journal : {<<"j">>},
                DOI : {<<>>, <<"x">>}]

\* strings.Fields
RECURSIVE Fields(_)
Fields(str) ==
    LET t == TrimLeft(str)
        spaces == {i \in 1..Len(t) : IsSpace(t[i])}
        end == IF spaces = {} THEN Len(t) + 1
               ELSE CHOOSE i \in spaces : \A j \in spaces : i <= j
    IN IF t = <<>> THEN <<>>
       ELSE <<SubSeq(t, 1, end - 1)>> \o Fields(SubSeq(t, end, Len(t)))

\* strings.Join(parts, sep)
RECURSIVE JoinSep(_, _)
JoinSep(parts, sep) ==
    IF parts = <<>> THEN <<>>
    ELSE IF Len(parts) = 1 THEN parts[1]
    ELSE parts[1] \o sep \o JoinSep(Tail(parts), sep)

initials(foreName) ==
    LET parts == Fields(foreName)
    IN JoinSep([i \in 1..Len(parts) |-> <<parts[i][1]>>], <<".", " ">>)

\* fmt.Sprintf("%s, %s.", a.LastName, initials(a.ForeName))
APAName(a) == a.LastName \o <<",", " ">> \o initials(a.ForeName) \o <<".">>
AndName(a) == <<"&", " ">> \o APAName(a)
Ellipsis == <<".", ".", ".">>
DOIURL == <<" ", "h", "t", "t", "p", "s", ":", "/", "/", "d", "o", "i", ".",
            "o", "r", "g", "/">>

\* what follows the author list in the citation
APATail(article) ==
    <<" ", "(">> \o article.Year \o <<")", ".", " ">> \o article.Title
        \o <<".", " ">> \o article.Journal \o <<".">>
        \o (IF article.DOI # <<>> THEN DOIURL \o article.DOI ELSE <<>>)

formatAPA(article) ==
    LET as == article.Authors
        n == Len(as)
        authors ==
            IF n = 0 THEN Unknown
            ELSE IF n = 1 THEN APAName(as[1])
            ELSE IF n <= APAMaxListed
            THEN JoinSep([i \in 1..n |-> IF i = n THEN AndName(as[i])
                                         ELSE APAName(as[i])],
                         <<",", " ">>)
            ELSE JoinSep([i \in 1..APAFirstListed |-> APAName(as[i])]
                             \o <<Ellipsis, AndName(as[n])>>,
                         <<",", " ">>)
    IN authors \o APATail(article)

(***************************************************************************)
(* internal/synth/relevance.go: truncate, as the scoring prompt calls it.  *)
(***************************************************************************)
AbstractExcerptLimit == 500
MaxAbstractLen == 502
Abstracts == {[i \in 1..n |-> "a"] : n \in 0..MaxAbstractLen}

truncate(s, maxLen) ==
    IF maxLen <= 0 THEN <<>>
    ELSE IF Len(s) <= maxLen THEN s
    ELSE SubSeq(s, 1, maxLen) \o <<".", ".", ".">>

(***************************************************************************)
(* internal/llm/sanitize.go: SanitizePromptWithConfig.  The prompts are    *)
(* written over a small alphabet: a letter, the space, the NUL control     *)
(* character, a shell metacharacter and the combining acute accent, which  *)
(* NFC composes with a preceding "a".  No prompt over this alphabet        *)
(* matches an injection pattern or holds a URL, and AllowedDomains is      *)
(* empty.                                                                  *)
(***************************************************************************)
MaxPromptChars == 6
MinPromptLength == 5
MaxPromptLength == 10000
NUL == "U+0000"
CombiningAcute == "U+0301"
AAcute == "U+00E1"
PromptAlphabet == {"a", " ", NUL, ";", CombiningAcute}
Prompts == SeqsUpTo(PromptAlphabet, MaxPromptChars)
SecurityConfigs == [MaxPromptLength : {0}, AllowShellMetachars : BOOLEAN,
                    BlockPromptInjection : {TRUE}]
SanitizeInputs == [prompt : Prompts, cfg : SecurityConfigs]

\* len(s): the number of bytes of the UTF-8 encoding
RECURSIVE ByteLen(_)
ByteLen(s) ==
    IF s = <<>> THEN 0
    ELSE (IF Head(s) \in {CombiningAcute, AAcute} THEN 2 ELSE 1)
            + ByteLen(Tail(s))

\* unicode.IsControl
IsControl(c) == c \in {NUL, "\t", "\n", "\r"}

stripControlChars(s) ==
    SelectSeq(s, LAMBDA r : r \in {" ", "\t", "\n", "\r"} \/ ~IsControl(r))

\* norm.NFC.String
RECURSIVE NFC(_)
NFC(s) ==
    IF Len(s) < 2 THEN s
    ELSE IF s[1] = "a" /\ s[2] = CombiningAcute
         THEN <<AAcute>> \o NFC(SubSeq(s, 3, Len(s)))
         ELSE <<s[1]>> \o NFC(Tail(s))

\* shellMetacharPattern.MatchString
containsShellMetachars(s) ==
    \E i \in 1..Len(s) : s[i] \in {";", "|", "&", "$"}

\* the shortest of promptInjectionPatterns: (?i)jailbreak
InjectionWord == <<"j", "a", "i", "l", "b", "r", "e", "a", "k">>
containsPromptInjection(s) ==
    \E i \in 1..Len(s) :
        /\ i + Len(InjectionWord) - 1 <= Len(s)
        /\ SubSeq(s, i, i + Len(InjectionWord) - 1) = InjectionWord

Rejected(e) == [prompt |-> <<>>, err |-> e]

\* the steps 1 to 4 of SanitizePromptWithConfig
clean(prompt) ==
    NFC(stripControlChars(SelectSeq(TrimSpace(prompt), LAMBDA r : r # NUL)))

SanitizePromptWithConfig(prompt0, c) ==
    LET prompt == clean(prompt0)
        maxLen == IF c.MaxPromptLength <= 0 THEN MaxPromptLength
                  ELSE c.MaxPromptLength
    IN IF ByteLen(prompt) < MinPromptLength
       THEN Rejected("prompt too short")
       ELSE IF ByteLen(prompt) > maxLen THEN Rejected("prompt too long")
       ELSE IF ~c.AllowShellMetachars /\ containsShellMetachars(prompt)
       THEN Rejected("shell metacharacters detected")
       ELSE IF c.BlockPromptInjection /\ containsPromptInjection(prompt)
       THEN Rejected("injection pattern detected")
       ELSE [prompt |-> prompt, err |-> ""]

(***************************************************************************)
(* internal/qa: ExpandQuery.  A question is written over a small alphabet: *)
(* the auxiliary word "Does" and a recency preamble clause (the clause     *)
(* with its comma) are single characters of the model, "x" is a letter.    *)
(* Long questions are a short head, a run of letters and a short tail.     *)
(***************************************************************************)
MaxQuestionLen == 3
MaxQueryLength == 150
Does == "Does"
Preamble == "According to a 2025 study,"
QueryAlphabet == {Does, Preamble, " ", "?", "x"}
QuestionTails == {<<>>, <<"?">>, <<"?", "?">>, <<"?", "x">>, <<"?", " ">>}
Padding == {0, MaxQueryLength - 1, MaxQueryLength + 1}
QueryInputs ==
    {h \o [i \in 1..p |-> "x"] \o t :
        h \in SeqsUpTo(QueryAlphabet, MaxQuestionLen),
        p \in Padding, t \in QuestionTails}

IsWordChar(c) == c \in {"x", Does, Preamble}

\* the text begins with an auxiliary word
LeadingAuxiliary(q) ==
    q # <<>> /\ q[1] = Does /\ (Len(q) = 1 \/ ~IsWordChar(q[2]))

\* step 1: the preamble clause and the whitespace after it
stripPreamble(q) ==
    IF q # <<>> /\ q[1] = Preamble THEN TrimLeft(Tail(q)) ELSE q

\* step 2: one leading auxiliary word
stripAuxiliaryNever(q) == q
stripAuxiliary(q) == IF LeadingAuxiliary(q) THEN Tail(q) ELSE q

\* step 3: a single trailing "?"
stripQuestionMark(q) ==
    IF q # <<>> /\ q[Len(q)] = "?" THEN SubSeq(q, 1, Len(q) - 1) ELSE q

\* step 4: runs of whitespace become one space, and the ends are trimmed
collapseRuns(q) ==
    LET kept == SelectSeq([i \in 1..Len(q) |-> i],
                          LAMBDA i : ~(i > 1 /\ IsSpace(q[i])
                                              /\ IsSpace(q[i - 1])))
    IN [k \in 1..Len(kept) |-> IF IsSpace(q[kept[k]]) THEN " "
                               ELSE q[kept[k]]]
collapseSpaces(q) == TrimSpace(collapseRuns(q))

\* step 5: hard truncation, no marker
truncateQuery(q) ==
    IF Len(q) > MaxQueryLength THEN SubSeq(q, 1, MaxQueryLength) ELSE q

ExpandQuery(q) ==
    truncateQuery(collapseSpaces(stripQuestionMark(
        stripAuxiliary(stripPreamble(q)))))

(***************************************************************************)
(* internal/qa: MinifyAbstract.  An abstract is written over a small       *)
(* alphabet: a letter, the full stop, the space, a statistic ("%") and a   *)
(* section label ("RESULTS:"), the last two single characters of the       *)
(* model.  The order among units of equal score is not fixed.              *)
(***************************************************************************)
MaxTextLen == 5
Statistic == "%"
Label == "RESULTS:"
LabelBonus == 3
TermBonus == 1
AbstractAlphabet == {"x", ".", " ", Statistic, Label}
MinifyInputs == [text : SeqsUpTo(AbstractAlphabet, MaxTextLen),
                 maxChars : 0..MaxTextLen]

\* the sentence-like units: a unit ends at a full stop that is followed by
\* whitespace or by the end of the text
RECURSIVE sentenceUnits(_)
sentenceUnits(text) ==
    LET t == TrimLeft(text)
        ends == {i \in 1..Len(t) :
                    t[i] = "." /\ (i = Len(t) \/ IsSpace(t[i + 1]))}
        end == IF ends = {} THEN Len(t)
               ELSE CHOOSE i \in ends : \A j \in ends : i <= j
    IN IF t = <<>> THEN <<>>
       ELSE IF ends = {} THEN <<TrimRight(t)>>
       ELSE <<SubSeq(t, 1, end)>> \o sentenceUnits(SubSeq(t, end + 1, Len(t)))

unitScore(u) ==
    (IF u[1] = Label THEN LabelBonus ELSE 0)
        + TermBonus * Cardinality({i \in 1..Len(u) : u[i] = Statistic})

\* the orders of the units by descending score
ScoreOrders(units) ==
    {o \in Permutations_([i \in 1..Len(units) |-> i]) :
        \A i, j \in 1..Len(o) :
            i < j => unitScore(units[o[i]]) >= unitScore(units[o[j]])}

\* what a further unit costs besides its own length: the joining space
joinCostFree(picked) == 0
joinCost(picked) == IF picked = {} THEN 0 ELSE 1

\* greedy selection: stops at the first unit that would exceed the budget
RECURSIVE selectUnits(_, _, _, _, _)
selectUnits(units, order, maxChars, picked, used) ==
    IF order = <<>> THEN picked
    ELSE LET need == Len(units[Head(order)]) + joinCost(picked)
         IN IF used + need > maxChars THEN picked
            ELSE selectUnits(units, Tail(order), maxChars,
                             picked \cup {Head(order)}, used + need)

\* the units of the set picked, in their order of appearance
emitUnits(units, picked) ==
    JoinSep(SelectSeq([i \in 1..Len(units) |-> IF i \in picked THEN units[i]
                                               ELSE <<>>],
                      LAMBDA u : u # <<>>),
            <<" ">>)

MinifyAbstract(text, maxChars, order) ==
    LET units == sentenceUnits(text)
        picked == selectUnits(units, order, maxChars, {}, 0)
    IN IF Len(text) <= maxChars THEN text
       ELSE IF picked = {} THEN SubSeq(text, 1, maxChars)
       ELSE emitUnits(units, picked)

(***************************************************************************)
(* Application of one pure function to one input.                          *)
(***************************************************************************)
ScoreInputs == [llmNil : BOOLEAN, articleNil : BOOLEAN,
                out : LLMOutcomes(FALSE)]
PureFunctions == {"generateBibTeXCitationKeys", "generateRISEntry",
                  "scoreArticleRelevance", "runSynth", "formatAPA",
                  "truncate", "SanitizePromptWithConfig", "ExpandQuery",
                  "MinifyAbstract"}
InputsOf(f) ==
    CASE f = "generateBibTeXCitationKeys" -> BibInputs
      [] f = "generateRISEntry" -> RISInputs
      [] f = "scoreArticleRelevance" -> ScoreInputs
      [] f = "runSynth" -> RunSynthInputs
      [] f = "formatAPA" -> APAArticles
      [] f = "truncate" -> Abstracts
      [] f = "SanitizePromptWithConfig" -> SanitizeInputs
      [] f = "ExpandQuery" -> QueryInputs
      [] f = "MinifyAbstract" -> MinifyInputs

ApplyBibTeXKeys ==
    /\ fn = "generateBibTeXCitationKeys"
    /\ fout = <<>>
    /\ fout' = <<generateBibTeXCitationKeys(fin)>>
    /\ UNCHANGED <<fn, fin>>
    /\ UNCHANGED notPure

ApplyRISEntry ==
    /\ fn = "generateRISEntry"
    /\ fout = <<>>
    /\ fout' = <<generateRISEntry(fin.rev, fin.ref)>>
    /\ UNCHANGED <<fn, fin>>
    /\ UNCHANGED notPure

ApplyScore ==
    /\ fn = "scoreArticleRelevance"
    /\ fout = <<>>
    /\ fout' = <<scoreArticleRelevance(fin.llmNil, fin.articleNil, fin.out)>>
    /\ UNCHANGED <<fn, fin>>
    /\ UNCHANGED notPure

ApplyRunSynth ==
    /\ fn = "runSynth"
    /\ fout = <<>>
    /\ fout' = <<runSynth(fin.rev, fin.flags)>>
    /\ UNCHANGED <<fn, fin>>
    /\ UNCHANGED notPure

ApplyFormatAPA ==
    /\ fn = "formatAPA"
    /\ fout = <<>>
    /\ fout' = <<formatAPA(fin)>>
    /\ UNCHANGED <<fn, fin>>
    /\ UNCHANGED notPure

ApplyTruncate ==
    /\ fn = "truncate"
    /\ fout = <<>>
    /\ fout' = <<truncate(fin, AbstractExcerptLimit)>>
    /\ UNCHANGED <<fn, fin>>
    /\ UNCHANGED notPure

ApplySanitize ==
    /\ fn = "SanitizePromptWithConfig"
    /\ fout = <<>>
    /\ fout' = <<SanitizePromptWithConfig(fin.prompt, fin.cfg)>>
    /\ UNCHANGED <<fn, fin>>
    /\ UNCHANGED notPure

ApplyExpandQuery ==
    /\ fn = "ExpandQuery"
    /\ fout = <<>>
    /\ fout' = <<ExpandQuery(fin)>>
    /\ UNCHANGED <<fn, fin>>
    /\ UNCHANGED notPure

ApplyMinifyAbstract ==
    /\ fn = "MinifyAbstract"
    /\ fout = <<>>
    /\ \E order \in ScoreOrders(sentenceUnits(fin.text)) :
          fout' = <<MinifyAbstract(fin.text, fin.maxChars, order)>>
    /\ UNCHANGED <<fn, fin>>
    /\ UNCHANGED notPure

\* one of the functions is about to be applied to one of its inputs
InitPure ==
    /\ fn \in PureFunctions
    /\ fin \in InputsOf(fn)
    /\ fout = <<>>
    /\ cfg = [PapersToUse |-> 1,
              RelevanceThreshold |-> DefaultRelevanceThreshold,
              llmNil |-> FALSE]
    /\ pc = "idle"
    /\ ctx = NoContext
    /\ searchIDs = <<>>
    /\ articles = <<>>
    /\ scored = <<>>
    /\ relevant = <<>>
    /\ calls = <<>>
    /\ pending = <<>>
    /\ result = <<>>
    /\ err = NoErr
    /\ method = "Synthesize"
    /\ tokens = NoTokens
    /\ qcfg = [ForceParametric |-> FALSE, ForceRetrieval |-> FALSE,
               ConfidenceThreshold |-> DefaultConfidenceThreshold,
               MaxResults |-> 1]
    /\ question = <<>>
    /\ qstate = "Start"
    /\ qsub = ""
    /\ qres = EmptyResult
    /\ qaux = EmptyAux
    /\ qcalls = <<>>
    /\ qerr = ""
    /\ hasKey = FALSE
    /\ now = 0
    /\ mu = 0
    /\ lastRequest = 0
    /\ gor = <<>>
    /\ sent = <<>>
    /\ script = <<>>
    /\ run = <<>>

NextPure ==
    \/ ApplyBibTeXKeys
    \/ ApplyRISEntry
    \/ ApplyScore
    \/ ApplyRunSynth
    \/ ApplyFormatAPA
    \/ ApplyTruncate
    \/ ApplySanitize
    \/ ApplyExpandQuery
    \/ ApplyMinifyAbstract

SpecPure == InitPure /\ [][NextPure]_vars

(***************************************************************************)
(* internal/eutils/client.go: doGet and its rate limiter.  Time is counted *)
(* in ticks of 1/10 second, and a duration is a whole number of ticks.     *)
(***************************************************************************)
MaxGoroutines == 3
MaxClock == 4
TicksPerSecond == 10
rateWithoutKey == 3
rateWithKey == 10
StatusOK == 200
StatusTooManyRequests == 429

Goroutines == 1..MaxGoroutines
rateLimit == IF hasKey THEN TicksPerSecond \div rateWithKey
             ELSE TicksPerSecond \div rateWithoutKey
\* the zero time.Time lies further back than any rate interval
ZeroTime == 0 - TicksPerSecond

Goroutine(p, wakeAt, requests, status) ==
    [pc |-> p, wakeAt |-> wakeAt, requests |-> requests, status |-> status]
At(g, p) == [gor EXCEPT ![g].pc = p]

\* c.mu.Lock(), on entry to doGet and after the wait
Lock ==
    \E g \in Goroutines :
       /\ gor[g].pc \in {"idle", "relock"}
       /\ mu = 0
       /\ mu' = g
       /\ gor' = At(g, IF gor[g].pc = "idle" THEN "check" ELSE "stamp")
       /\ UNCHANGED <<hasKey, now, lastRequest, sent>>
       /\ UNCHANGED notClient

\* elapsed < c.rateLimit: release the mutex and start the timer
StartWait ==
    \E g \in Goroutines :
       /\ gor[g].pc = "check"
       /\ now - lastRequest < rateLimit
       /\ mu' = 0
       /\ gor' = [gor EXCEPT ![g].pc = "sleep",
                             ![g].wakeAt = now + (rateLimit - (now - lastRequest))]
       /\ UNCHANGED <<hasKey, now, lastRequest, sent>>
       /\ UNCHANGED notClient

\* elapsed >= c.rateLimit: no wait
NoWait ==
    \E g \in Goroutines :
       /\ gor[g].pc = "check"
       /\ now - lastRequest >= rateLimit
       /\ gor' = At(g, "stamp")
       /\ UNCHANGED <<hasKey, now, mu, lastRequest, sent>>
       /\ UNCHANGED notClient

\* case <-time.After(wait)
WakeUp ==
    \E g \in Goroutines :
       /\ gor[g].pc = "sleep"
       /\ now >= gor[g].wakeAt
       /\ gor' = [gor EXCEPT ![g].pc = "relock", ![g].wakeAt = 0]
       /\ UNCHANGED <<hasKey, now, mu, lastRequest, sent>>
       /\ UNCHANGED notClient

\* c.lastRequest after a wait that the context ended: the return comes
\* before the assignment of c.lastRequest
lastRequestOnCancelNow == now
lastRequestOnCancel == lastRequest

\* case <-ctx.Done(): return nil, ctx.Err()
CancelWait ==
    \E g \in Goroutines :
       /\ gor[g].pc = "sleep"
       /\ gor' = [gor EXCEPT ![g].pc = "done", ![g].wakeAt = 0,
                             ![g].status = "ctx"]
       /\ lastRequest' = lastRequestOnCancel
       /\ UNCHANGED <<hasKey, now, mu, sent>>
       /\ UNCHANGED notClient

\* c.lastRequest = time.Now(); c.mu.Unlock(); the request is issued
Stamp ==
    \E g \in Goroutines :
       /\ gor[g].pc = "stamp"
       /\ mu = g
       /\ lastRequest' = now
       /\ mu' = 0
       /\ sent' = Append(sent, [g |-> g, at |-> now])
       /\ gor' = [gor EXCEPT ![g].pc = "http",
                             ![g].requests = gor[g].requests + 1]
       /\ UNCHANGED <<hasKey, now>>
       /\ UNCHANGED notClient

\* HTTP 429 ends the call with an error
on429(g) == "done"

\* c.httpClient.Do(req) and the handling of the status code
HTTPDo ==
    \E g \in Goroutines :
       \E code \in {StatusOK, StatusTooManyRequests} :
          /\ gor[g].pc = "http"
          /\ gor' = [gor EXCEPT ![g].pc = IF code = StatusTooManyRequests
                                          THEN on429(g) ELSE "done",
                                ![g].status = IF code = StatusOK THEN "ok"
                                              ELSE "rate limit exceeded"]
          /\ UNCHANGED <<hasKey, now, mu, lastRequest, sent>>
          /\ UNCHANGED notClient

\* the clock advances while a call is under way
Tick ==
    /\ now < MaxClock
    /\ \E g \in Goroutines : gor[g].pc \notin {"idle", "done"}
    /\ now' = now + 1
    /\ UNCHANGED <<hasKey, mu, lastRequest, gor, sent>>
    /\ UNCHANGED notClient

\* a Client built by NewClient, with or without WithAPIKey
InitClient ==
    /\ hasKey \in BOOLEAN
    /\ now = 0
    /\ mu = 0
    /\ lastRequest = ZeroTime
    /\ gor = [g \in Goroutines |-> Goroutine("idle", 0, 0, "")]
    /\ sent = <<>>
    /\ fn = ""
    /\ fin = <<>>
    /\ fout = <<>>
    /\ cfg = [PapersToUse |-> 1,
              RelevanceThreshold |-> DefaultRelevanceThreshold,
              llmNil |-> FALSE]
    /\ pc = "idle"
    /\ ctx = NoContext
    /\ searchIDs = <<>>
    /\ articles = <<>>
    /\ scored = <<>>
    /\ relevant = <<>>
    /\ calls = <<>>
    /\ pending = <<>>
    /\ result = <<>>
    /\ err = NoErr
    /\ method = "Synthesize"
    /\ tokens = NoTokens
    /\ qcfg = [ForceParametric |-> FALSE, ForceRetrieval |-> FALSE,
               ConfidenceThreshold |-> DefaultConfidenceThreshold,
               MaxResults |-> 1]
    /\ question = <<>>
    /\ qstate = "Start"
    /\ qsub = ""
    /\ qres = EmptyResult
    /\ qaux = EmptyAux
    /\ qcalls = <<>>
    /\ qerr = ""
    /\ script = <<>>
    /\ run = <<>>

NextClient ==
    \/ Lock
    \/ StartWait
    \/ NoWait
    \/ WakeUp
    \/ CancelWait
    \/ Stamp
    \/ HTTPDo
    \/ Tick

SpecClient == InitClient /\ [][NextClient]_vars

(***************************************************************************)
(* Concurrent calls of Synthesize and SynthesizePMID on one Engine         *)
(* (internal/synth/engine.go).  What the collaborators answer to a call is *)
(* fixed before the calls start; the calls interleave at their             *)
(* collaborator requests.                                                  *)
(***************************************************************************)
MaxCalls == 2
MaxConcDocs == 1

CallIds == 1..MaxCalls
ConcScores == {LLMFail, [ok |-> TRUE, resp |-> <<9>>]}
Failed == 0 - 1

\* search and fetched: the number of documents returned, Failed for an error
Script(kind, search, fetched, scores, synthOK) ==
    [kind |-> kind, search |-> search, fetched |-> fetched,
     scores |-> scores, synthOK |-> synthOK]
SynthesizeScripts ==
    {Script("Synthesize", n, Failed, <<>>, FALSE) : n \in {Failed, 0}}
    \cup {Script("Synthesize", n, Failed, <<>>, FALSE) : n \in 1..MaxConcDocs}
    \cup {Script("Synthesize", n, n, sc, ok) :
             n \in 1..MaxConcDocs, sc \in SeqsUpTo(ConcScores, MaxConcDocs),
             ok \in BOOLEAN}
SynthesizePMIDScripts ==
    {Script("SynthesizePMID", 1, m, <<>>, FALSE) : m \in {Failed, 0}}
    \cup {Script("SynthesizePMID", 1, 1, <<>>, ok) : ok \in BOOLEAN}
Scripts ==
    {s \in SynthesizeScripts : s.fetched = Failed \/ Len(s.scores) = s.fetched}
    \cup SynthesizePMIDScripts

\* the documents of call c
DocsOf(c, n) == [i \in 1..n |-> 10 * c + i]

Locals(p, ids, arts, sc, res, e) ==
    [pc |-> p, ids |-> ids, articles |-> arts, scored |-> sc,
     result |-> res, err |-> e]
Returned(r, res, e) == [r EXCEPT !.pc = "done", !.result = res, !.err = e]

\* Synthesize step 1, the search
ConcSearch ==
    \E c \in CallIds :
       /\ script[c].kind = "Synthesize"
       /\ run[c].pc = "search"
       /\ run' = [run EXCEPT ![c] =
             IF script[c].search = Failed THEN Returned(@, <<>>, "search")
             ELSE IF noPapersFound(DocsOf(c, script[c].search))
                  THEN Returned(@, <<>>, "no papers found")
             ELSE [@ EXCEPT !.pc = "fetch",
                            !.ids = DocsOf(c, script[c].search)]]
       /\ UNCHANGED script
       /\ UNCHANGED notConc

\* the fetch of Synthesize and of SynthesizePMID
ConcFetch ==
    \E c \in CallIds :
       /\ run[c].pc = "fetch"
       /\ run' = [run EXCEPT ![c] =
             IF script[c].fetched = Failed THEN Returned(@, <<>>, "fetch")
             ELSE IF script[c].kind = "SynthesizePMID" /\ script[c].fetched = 0
                  THEN Returned(@, <<>>, "article not found")
             ELSE [@ EXCEPT !.pc = IF script[c].kind = "Synthesize"
                                   THEN "score" ELSE "synth",
                            !.articles = SubSeq(run[c].ids, 1,
                                                script[c].fetched)]]
       /\ UNCHANGED script
       /\ UNCHANGED notConc

\* one round of the loop of scoreRelevance
ConcScore ==
    \E c \in CallIds :
       /\ run[c].pc = "score"
       /\ Len(run[c].scored) < Len(run[c].articles)
       /\ LET k == Len(run[c].scored) + 1
              r == scoreArticleRelevance(cfg.llmNil, FALSE, script[c].scores[k])
          IN run' = [run EXCEPT ![c].scored =
                        Append(@, [Article |-> run[c].articles[k],
                                   RelevanceScore |-> scoreOrNeutral(r)])]
       /\ UNCHANGED script
       /\ UNCHANGED notConc

\* a nil dereference in one goroutine ends the process: no other call returns
Panic(c) ==
    [d \in CallIds |->
        IF d = c THEN [run[d] EXCEPT !.pc = "panicked", !.err = "panic"]
        ELSE IF run[d].pc = "done" THEN run[d]
        ELSE [run[d] EXCEPT !.pc = "killed", !.err = "panic"]]

\* Synthesize steps 4 to 7: filter, sort, take the top N, synthesize
ConcSynthesize ==
    \E c \in CallIds :
       /\ run[c].pc = "score"
       /\ Len(run[c].scored) = Len(run[c].articles)
       /\ \E sorted \in sortSlice(filterRelevant(run[c].scored,
                                                 cfg.RelevanceThreshold)) :
             LET top == takeTop(sorted, cfg.PapersToUse) IN
             run' = IF noneRelevant(top)
                    THEN [run EXCEPT ![c] =
                             Returned(@, <<>>,
                                      "no papers met relevance threshold")]
                    ELSE IF cfg.llmNil THEN Panic(c)
                    ELSE IF ~script[c].synthOK
                         THEN [run EXCEPT ![c] = Returned(@, <<>>, "synthesis")]
                    ELSE [run EXCEPT ![c] = Returned(@,
                             <<[PapersSearched |-> Len(run[c].ids),
                                PapersScored |-> Len(run[c].scored),
                                PapersUsed |-> Len(top),
                                References |-> References(top)]>>, "")]
       /\ UNCHANGED script
       /\ UNCHANGED notConc

\* SynthesizePMID: the deep-dive summary of the fetched article
ConcDeepDive ==
    \E c \in CallIds :
       /\ run[c].pc = "synth"
       /\ run' = IF cfg.llmNil THEN Panic(c)
                 ELSE IF ~script[c].synthOK
                      THEN [run EXCEPT ![c] = Returned(@, <<>>, "synthesis")]
                 ELSE [run EXCEPT ![c] = Returned(@,
                          <<[PapersSearched |-> 1, PapersScored |-> 1,
                             PapersUsed |-> 1,
                             References |->
                                <<buildReference(run[c].articles[1], 1,
                                                 DeepDiveRelevance)>>]>>, "")]
       /\ UNCHANGED script
       /\ UNCHANGED notConc

\* MaxCalls calls are about to start on one Engine
InitConc ==
    /\ cfg \in {c \in Config : c.PapersToUse = 1}
    /\ script \in [CallIds -> Scripts]
    /\ run = [c \in CallIds |->
                 IF script[c].kind = "Synthesize"
                 THEN Locals("search", <<>>, <<>>, <<>>, <<>>, "")
                 ELSE Locals("fetch", DocsOf(c, 1), <<>>, <<>>, <<>>, "")]
    /\ pc = "idle"
    /\ ctx = NoContext
    /\ searchIDs = <<>>
    /\ articles = <<>>
    /\ scored = <<>>
    /\ relevant = <<>>
    /\ calls = <<>>
    /\ pending = <<>>
    /\ result = <<>>
    /\ err = NoErr
    /\ method = "Synthesize"
    /\ tokens = NoTokens
    /\ qcfg = [ForceParametric |-> FALSE, ForceRetrieval |-> FALSE,
               ConfidenceThreshold |-> DefaultConfidenceThreshold,
               MaxResults |-> 1]
    /\ question = <<>>
    /\ qstate = "Start"
    /\ qsub = ""
    /\ qres = EmptyResult
    /\ qaux = EmptyAux
    /\ qcalls = <<>>
    /\ qerr = ""
    /\ fn = ""
    /\ fin = <<>>
    /\ fout = <<>>
    /\ hasKey = FALSE
    /\ now = 0
    /\ mu = 0
    /\ lastRequest = 0
    /\ gor = <<>>
    /\ sent = <<>>

NextConc ==
    \/ ConcSearch
    \/ ConcFetch
    \/ ConcScore
    \/ ConcSynthesize
    \/ ConcDeepDive

SpecConc == InitConc /\ [][NextConc]_vars

(***************************************************************************)
(* Properties of Synthesize (specification Spec).                          *)
(***************************************************************************)
Succeeded == pc = "done" /\ result # <<>>
SearchOK == \E i \in 1..Len(calls) : calls[i].kind = "search" /\ calls[i].ok
FetchOK == \E i \in 1..Len(calls) : calls[i].kind = "fetch" /\ calls[i].ok
SynthRequested ==
    \/ \E i \in 1..Len(calls) : calls[i].kind = "synth"
    \/ \E i \in 1..Len(pending) : pending[i].kind = "synth"
\* the scoring of the k-th fetched article failed
ScoringFailed(k) ==
    \/ cfg.llmNil
    \/ \E i \in 1..Len(calls) :
          calls[i].kind = "score" /\ calls[i].doc = articles[k] /\ ~calls[i].ok
\* the position at which an article was scored
ScoredPos(a) == CHOOSE k \in 1..Len(scored) : scored[k].Article = a

\* C1: on every successful Synthesize each Reference of the result has a
\* relevance score at or above the configured threshold, and the References
\* are listed in non-increasing order of relevance score.
C1_RelevanceFilteredAndOrdered ==
    Succeeded =>
        LET refs == result[1].References IN
        /\ \A i \in 1..Len(refs) :
              refs[i].RelevanceScore >= cfg.RelevanceThreshold
        /\ \A i \in 1..Len(refs) - 1 :
              refs[i].RelevanceScore >= refs[i + 1].RelevanceScore

\* a success with two References of different scores, one scored paper
\* having been filtered out
C1_Witness ==
    /\ Succeeded
    /\ Len(result[1].References) = 2
    /\ result[1].References[1].RelevanceScore
          > result[1].References[2].RelevanceScore
    /\ \E k \in 1..Len(scored) :
          scored[k].RelevanceScore < cfg.RelevanceThreshold

\* C2: the ranked papers are in descending order of score, and two papers
\* with equal scores keep the relative order in which they were scored
\* (the sort is stable on ties).
C2_StableOnTies ==
    (pc \in {"synth", "done"} /\ relevant # <<>>) =>
        /\ IsSortedDesc(relevant)
        /\ \A i, j \in 1..Len(relevant) :
              (i < j /\ relevant[i].RelevanceScore = relevant[j].RelevanceScore)
                 => ScoredPos(relevant[i].Article)
                       < ScoredPos(relevant[j].Article)

C4_StopsOnCancel ==
    (ctx.cancelled /\ ctx.atPc \in {"score", "scoreWait"} /\ ctx.atScored >= 1
        /\ ctx.atScored < Len(articles)) =>
        /\ Len(scored) <= ctx.atScored + 1
        /\ pc \notin {"synth", "synthWait"}
        /\ pc = "done" => err.cause = CtxCanceled

\* C10: a success has at least one Reference; a search without identifiers
\* ends the call with "no papers found", a scoring without any paper at the
\* threshold ends it with "no papers met relevance threshold"; both with a
\* nil result and without a synthesis request.
C10_NoEmptySuccess ==
    /\ Succeeded => Len(result[1].References) >= 1
    /\ (pc = "done" /\ SearchOK /\ searchIDs = <<>>) =>
          /\ err.stage = "no papers found"
          /\ result = <<>>
          /\ ~SynthRequested
          /\ ~FetchOK
    /\ (pc = "done" /\ FetchOK
           /\ \A k \in 1..Len(scored) :
                 scored[k].RelevanceScore < cfg.RelevanceThreshold) =>
          /\ err.stage = "no papers met relevance threshold"
          /\ result = <<>>
          /\ ~SynthRequested

\* two papers were scored and none reached the threshold
C10_Witness ==
    /\ pc = "done"
    /\ Len(scored) >= 2
    /\ err.stage = "no papers met relevance threshold"
    /\ \A k \in 1..Len(scored) :
          scored[k].RelevanceScore < cfg.RelevanceThreshold

\* C11 as stated: a Synthesize call on an Engine without an LLM client does
\* no search, fetch or scoring work, fails with an input-validation error,
\* and no neutral score stands in for the nil-client error.
C11_NilClientFailsAtOnce ==
    cfg.llmNil =>
        /\ calls = <<>>
        /\ scored = <<>>
        /\ pc = "done" => err.stage = "validation"

Min(a, b) == IF a < b THEN a ELSE b
\* the positions of the scored papers at or above the threshold
AtThreshold ==
    {k \in 1..Len(scored) : scored[k].RelevanceScore >= cfg.RelevanceThreshold}

\* C12: on a success the number of References is the smaller of PapersToUse
\* and the number of scored papers at or above the threshold, PapersUsed is
\* that number, the References are distinct such papers, and no such paper
\* left out has a strictly higher score than a paper that was kept.
C12_TopNKept ==
    Succeeded =>
        LET refs == result[1].References
            kept == {refs[i].PMID : i \in 1..Len(refs)} IN
        /\ Len(refs) = Min(cfg.PapersToUse, Cardinality(AtThreshold))
        /\ result[1].PapersUsed = Len(refs)
        /\ Cardinality(kept) = Len(refs)
        /\ \A i \in 1..Len(refs) :
              \E k \in AtThreshold :
                 /\ scored[k].Article = refs[i].PMID
                 /\ scored[k].RelevanceScore = refs[i].RelevanceScore
        /\ \A k \in AtThreshold :
              scored[k].Article \notin kept =>
                 \A i \in 1..Len(refs) :
                    refs[i].RelevanceScore >= scored[k].RelevanceScore

\* a success that left out a paper at the threshold
C12_Witness ==
    /\ Succeeded
    /\ Cardinality(AtThreshold) > cfg.PapersToUse
    /\ Len(result[1].References) = cfg.PapersToUse
    /\ \E i, j \in AtThreshold :
          scored[i].RelevanceScore # scored[j].RelevanceScore

\* the requests of one kind, answered or not
Requests(kind) ==
    Cardinality({i \in 1..Len(calls) : calls[i].kind = kind})
       + Cardinality({i \in 1..Len(pending) : pending[i].kind = kind})
StageOf(kind) == IF kind = "synth" THEN "synthesis" ELSE kind

\* C13: Search, Fetch and the synthesis request are made at most once, and
\* at most one scoring request is made per fetched article; when Search,
\* Fetch or the synthesis request fails, the call has ended with an error
\* naming that stage and a nil result, and no request follows the failed one.
C13_NoRetry ==
    /\ Requests("search") <= 1
    /\ Requests("fetch") <= 1
    /\ Requests("synth") <= 1
    /\ Requests("score") <= Len(articles)
    /\ \A a \in Range(articles) :
          Cardinality({i \in 1..Len(calls) :
                          calls[i].kind = "score" /\ calls[i].doc = a}) <= 1
    /\ \A i \in 1..Len(calls) :
          (calls[i].kind \in {"search", "fetch", "synth"} /\ ~calls[i].ok) =>
              /\ i = Len(calls)
              /\ pending = <<>>
              /\ pc = "done"
              /\ result = <<>>
              /\ err.stage = StageOf(calls[i].kind)

\* the synthesis request failed after two scoring requests
C13_Witness ==
    /\ pc = "done"
    /\ Requests("score") >= 2
    /\ calls[Len(calls)].kind = "synth"
    /\ ~calls[Len(calls)].ok
    /\ err.stage = "synthesis"

\* C14: at most one LLM request is outstanding; the scoring requests are
\* made in fetch order, one article after the other; the synthesis request
\* is made only after every fetched article has been scored.
C14_OneRequestAtATime ==
    /\ Len(pending) <= 1
    /\ LET sc == SelectSeq(calls, LAMBDA c : c.kind = "score") IN
       /\ Len(sc) <= Len(articles)
       /\ \A i \in 1..Len(sc) : sc[i].doc = articles[i]
    /\ \A i \in 1..Len(pending) :
          pending[i].kind = "score" =>
             /\ Len(scored) < Len(articles)
             /\ pending[i].doc = articles[Len(scored) + 1]
    /\ SynthRequested =>
          /\ Len(scored) = Len(articles)
          /\ \A i \in 1..Len(pending) : pending[i].kind # "score"
    /\ \A i, j \in 1..Len(calls) :
          (calls[i].kind = "synth" /\ calls[j].kind = "score") => j < i

\* the synthesis request is outstanding after two scoring requests
C14_Witness ==
    /\ pc = "synthWait"
    /\ Len(pending) = 1
    /\ pending[1].kind = "synth"
    /\ Requests("score") >= 2

(***************************************************************************)
(* Properties of Synthesize and SynthesizePMID (specification SpecAPI).    *)
(***************************************************************************)
\* C21: on every successful Synthesize or SynthesizePMID the Input and
\* Output token counters of the result are non-negative and Total is their
\* sum.
C21_TokenCountersAdd ==
    Succeeded =>
        LET t == result[1].Tokens IN
        /\ t.Input >= 0
        /\ t.Output >= 0
        /\ t.Total = t.Input + t.Output

\* each method has returned a result with tokens counted on both sides
C21_Witness ==
    /\ Succeeded
    /\ result[1].Tokens.Input > 0
    /\ result[1].Tokens.Output > 0
    /\ method = "SynthesizePMID" \/ Len(scored) >= 2

RECURSIVE SumOver(_, _, _)
SumOver(log, of(_), upTo) ==
    IF upTo = 0 THEN 0 ELSE of(log[upTo]) + SumOver(log, of, upTo - 1)
IsLLMCall(c) == c.kind \in {"score", "synth"}
SentEstimate(c) == IF IsLLMCall(c) THEN c.sent \div CharsPerToken ELSE 0
ReceivedEstimate(c) ==
    IF IsLLMCall(c) /\ c.ok THEN c.recv \div CharsPerToken ELSE 0

\* C22 as stated: on a successful Synthesize the Input counter covers the
\* estimate of every scoring prompt and of the synthesis prompt, and the
\* Output counter covers the estimate of every response received from the
\* generation collaborator.
C22_TokensCoverAllTraffic ==
    (Succeeded /\ method = "Synthesize") =>
        /\ result[1].Tokens.Input >= SumOver(calls, SentEstimate, Len(calls))
        /\ result[1].Tokens.Output
              >= SumOver(calls, ReceivedEstimate, Len(calls))

\* C24: SynthesizePMID makes no search and no scoring request, exactly one
\* fetch, for the identifier supplied, once it has started, and at most one
\* generation request; on success the result has exactly one Reference and
\* the counts searched, scored and used are 1; when the fetch returns no
\* document the call fails with "article not found" and no generation
\* request is made.
C24_DeepDiveShape ==
    method = "SynthesizePMID" =>
        /\ Requests("search") = 0
        /\ Requests("score") = 0
        /\ scored = <<>>
        /\ Requests("fetch") <= 1
        /\ pc # "deepFetch" => Requests("fetch") = 1
        /\ \A i \in 1..Len(calls) : calls[i].kind = "fetch" => calls[i].doc = 1
        /\ Requests("synth") <= 1
        /\ Succeeded =>
              /\ Len(result[1].References) = 1
              /\ result[1].PapersSearched = 1
              /\ result[1].PapersScored = 1
              /\ result[1].PapersUsed = 1
              /\ Requests("fetch") = 1
        /\ (FetchOK /\ articles = <<>>)
              => /\ pc = "done"
                 /\ err.stage = "article not found"
                 /\ result = <<>>
                 /\ Requests("synth") = 0

\* the fetch found nothing and the call has ended; elsewhere it succeeded
C24_Witness ==
    /\ method = "SynthesizePMID"
    /\ pc = "done"
    /\ err.stage = "article not found"
    /\ Requests("fetch") = 1

(***************************************************************************)
(* Properties of the pure functions (specification SpecPure).              *)
(***************************************************************************)
Applied(f) == fn = f /\ Len(fout) = 1

\* C18 as stated: the citation keys generated for one batch are pairwise
\* distinct, and among the references that share a base key the first
\* keeps the base, the second gets the suffix "a", the third "b", and so on
\* in the order encountered.
C18_KeysDistinctAndSuffixed ==
    Applied("generateBibTeXCitationKeys") =>
        LET keys == fout[1]
            base(i) == bibtexCitationKeyBase(fin[i])
            earlier(i) == Cardinality({j \in 1..(i - 1) : base(j) = base(i)})
        IN /\ Len(keys) = Len(fin)
           /\ \A i, j \in 1..Len(keys) : i # j => keys[i] # keys[j]
           /\ \A i \in 1..Len(keys) :
                 /\ earlier(i) = 0 => keys[i] = base(i)
                 /\ earlier(i) = 1 => keys[i] = base(i) \o <<"a">>
                 /\ earlier(i) = 2 => keys[i] = base(i) \o <<"b">>

\* C19 as stated: the RIS record of a Reference begins with the line
\* "TY  - JOUR" and ends with the line "ER  -", and every line of it is a
\* tagged line, so that no field value has put a raw newline inside one.
C19_RISRecordWellFormed ==
    Applied("generateRISEntry") =>
        LET ls == Lines(fout[1]) IN
        /\ ls[1] = <<"TY  - JOUR">>
        /\ ls[Len(ls)] = <<"ER  -">>
        /\ \A i \in 1..Len(ls) : ls[i] # <<>> /\ ls[i][1] \in RISTags

\* C20: scoreArticleRelevance returns an error with score 0, or no error
\* with a score in 1..10; it returns an error exactly when the LLM client
\* is nil, the article is nil, or Complete fails; a response without a
\* standalone numeral 1..10 gives the score 5 and no error.
C20_ScoreOrError ==
    Applied("scoreArticleRelevance") =>
        LET r == fout[1] IN
        /\ r.err => r.score = 0
        /\ ~r.err => r.score \in MinScore..MaxScore
        /\ r.err <=> (fin.llmNil \/ fin.articleNil \/ ~fin.out.ok)
        /\ (~r.err /\ \A i \in 1..Len(fin.out.resp) :
                         fin.out.resp[i] \notin MinScore..MaxScore)
              => r.score = NeutralScore

\* a response with tokens and no numeral 1..10 was scored
C20_Witness ==
    /\ Applied("scoreArticleRelevance")
    /\ ~fin.llmNil /\ ~fin.articleNil /\ fin.out.ok
    /\ Len(fin.out.resp) = 2
    /\ \A i \in 1..2 : fin.out.resp[i] \notin MinScore..MaxScore
    /\ fout[1].score = NeutralScore


\* C23 as stated: a synthesis run searches for at least as many documents
\* as it is configured to use: when papers-to-use exceeds the search
\* breadth, the breadth is raised to papers-to-use before the search.
C23_BreadthCoversPapersToUse ==
    (Applied("runSynth") /\ fout[1].err = "")
        => fout[1].Limit >= fout[1].PapersToUse

\* the author list as C27 states it, by the number of authors
ClaimedAuthors(as) ==
    LET n == Len(as) IN
    IF n = 0 THEN Unknown
    ELSE IF n = 1 THEN APAName(as[1])
    ELSE IF n = 2 THEN APAName(as[1]) \o <<" ", "&", " ">> \o APAName(as[2])
    ELSE IF n <= 7
    THEN JoinSep([i \in 1..n |-> IF i = n THEN <<"&", " ">> \o APAName(as[i])
                                 ELSE APAName(as[i])], <<",", " ">>)
    ELSE JoinSep([i \in 1..6 |-> APAName(as[i])]
                    \o <<Ellipsis, <<"&", " ">> \o APAName(as[n])>>,
                 <<",", " ">>)

\* C27 as stated: formatAPA renders no author as "Unknown", one author as
\* "Last, F.", two authors as "Last, F. & Last2, F2.", three to seven
\* authors separated by commas with "&" before the last, and more than
\* seven as the first six, an ellipsis, then "& " and the last author.
C27_APAAuthorList ==
    Applied("formatAPA")
        => fout[1] = ClaimedAuthors(fin.Authors) \o APATail(fin)

\* C28 as stated: the abstract excerpt of the relevance scoring prompt is
\* at most 500 characters long.
C28_ExcerptAtMostLimit ==
    Applied("truncate") => Len(fout[1]) <= AbstractExcerptLimit

\* C30 as stated: SanitizePromptWithConfig is idempotent on the prompts it
\* accepts: sanitizing its own output again with the same configuration
\* returns that output, without an error.
C30_SanitizeIdempotent ==
    (Applied("SanitizePromptWithConfig") /\ fout[1].err = "")
        => SanitizePromptWithConfig(fout[1].prompt, fin.cfg) = fout[1]

TrailingMark(s) == s # <<>> /\ s[Len(s)] = "?"

PlainQuestion(q) ==
    /\ q = <<>> \/ ~IsSpace(q[1])
    /\ \A i \in 1..Len(q) : q[i] = "?" => i = Len(q)
    /\ ~\E i, j \in 1..Len(q) :
            /\ i < j
            /\ q[i] = Does
            /\ q[j] = Does
            /\ \A k \in (i + 1)..(j - 1) : IsSpace(q[k])

UnitsJoined(units, picked) ==
    JoinSep(SelectSeq([i \in 1..Len(units) |-> IF i \in picked THEN units[i]
                                               ELSE <<>>],
                      LAMBDA u : u # <<>>),
            <<" ">>)

\* no selection can start: there is no unit, or a unit of the highest
\* score is longer than the budget
NoUnitFits(units, maxChars) ==
    \/ units = <<>>
    \/ \E i \in 1..Len(units) :
          /\ \A j \in 1..Len(units) : unitScore(units[j]) <= unitScore(units[i])
          /\ Len(units[i]) > maxChars

C16_RequestsOneIntervalApart ==
    \A i, j \in 1..Len(sent) :
       i < j => sent[j].at - sent[i].at >= rateLimit

\* C17 as stated: a doGet call does not end with the 429 error after a
\* single request; the request has been retried first.
C17_RetriesOn429 ==
    \A g \in Goroutines :
       (gor[g].pc = "done" /\ gor[g].status = "rate limit exceeded")
          => gor[g].requests > 1

\* C29 as stated: when the context is cancelled while doGet waits out the
\* rate interval, doGet returns the error of the context, has sent no HTTP
\* request and leaves the last-request time of the client as it was.
C29_CancelledWaitLeavesNoTrace ==
    [][\A g \in Goroutines :
          (gor[g].pc = "sleep" /\ gor'[g].pc = "done")
             => /\ gor'[g].status = "ctx"
                /\ gor'[g].requests = 0
                /\ sent' = sent
                /\ lastRequest' = lastRequest]_vars

\* a call was cancelled in its wait, and requests were sent around it
C29_Witness ==
    /\ \E g \in Goroutines : gor[g].pc = "done" /\ gor[g].status = "ctx"
    /\ Len(sent) >= 2
    /\ lastRequest = sent[Len(sent)].at


(***************************************************************************)
(* Properties of concurrent calls (specification SpecConc).                *)
(***************************************************************************)
Outcome(res, e) == [result |-> res, err |-> e]

\* what the call c returns when it runs alone with the answers of its script
AloneSynthesize(c) ==
    LET s == script[c]
        arts == DocsOf(c, s.fetched)
        sc == [i \in 1..Len(arts) |->
                 [Article |-> arts[i],
                  RelevanceScore |->
                     scoreOrNeutral(scoreArticleRelevance(cfg.llmNil, FALSE,
                                                          s.scores[i]))]]
        kept == {p \in Permutations_(SelectSeq(sc,
                        LAMBDA x : x.RelevanceScore >= cfg.RelevanceThreshold)) :
                    IsSortedDesc(p)}
        tops == {IF Len(p) > cfg.PapersToUse
                 THEN SubSeq(p, 1, cfg.PapersToUse) ELSE p : p \in kept}
    IN IF s.search = Failed THEN {Outcome(<<>>, "search")}
       ELSE IF s.search = 0 THEN {Outcome(<<>>, "no papers found")}
       ELSE IF s.fetched = Failed THEN {Outcome(<<>>, "fetch")}
       ELSE {IF t = <<>>
             THEN Outcome(<<>>, "no papers met relevance threshold")
             ELSE IF cfg.llmNil THEN Outcome(<<>>, "panic")
             ELSE IF ~s.synthOK THEN Outcome(<<>>, "synthesis")
             ELSE Outcome(<<[PapersSearched |-> s.search,
                             PapersScored |-> Len(sc),
                             PapersUsed |-> Len(t),
                             References |-> References(t)]>>, "") : t \in tops}

AloneSynthesizePMID(c) ==
    LET s == script[c] IN
    IF s.fetched = Failed THEN {Outcome(<<>>, "fetch")}
    ELSE IF s.fetched = 0 THEN {Outcome(<<>>, "article not found")}
    ELSE IF cfg.llmNil THEN {Outcome(<<>>, "panic")}
    ELSE IF ~s.synthOK THEN {Outcome(<<>>, "synthesis")}
    ELSE {Outcome(<<[PapersSearched |-> 1, PapersScored |-> 1,
                     PapersUsed |-> 1,
                     References |-> <<buildReference(DocsOf(c, 1)[1], 1,
                                                     DeepDiveRelevance)>>]>>,
                  "")}

Alone(c) == IF script[c].kind = "Synthesize" THEN AloneSynthesize(c)
            ELSE AloneSynthesizePMID(c)

\* C15 as stated: whatever the interleaving, a call that has ended has the
\* outcome of its run alone with the same collaborator answers.  (That no
\* call assigns to the Engine's fields holds in every action: cfg is never
\* changed.)
C15_CallsIsolated ==
    \A c \in DOMAIN run :
       run[c].pc \in {"done", "panicked", "killed"}
          => Outcome(run[c].result, run[c].err) \in Alone(c)


(***************************************************************************)
(* Properties of Answer (specification SpecQA).                            *)
(***************************************************************************)
Unforced == ~qcfg.ForceParametric /\ ~qcfg.ForceRetrieval
Decided == qres.Strategy # ""
EmptySearch == qaux.searched /\ qaux.ids = <<>>

\* C5 as stated: with parametric mode forced the Strategy is Parametric,
\* and with retrieval mode forced the Strategy is Retrieval, whatever the
\* other flags are.
C5_ForcedModesAsStated ==
    Decided =>
        /\ qcfg.ForceParametric => qres.Strategy = "parametric"
        /\ qcfg.ForceRetrieval => qres.Strategy = "retrieval"

\* C5: with parametric mode forced the Strategy is Parametric whatever the
\* novelty, the confidence and the other flags are; with retrieval mode
\* forced and parametric mode not forced the Strategy is Retrieval.
C5_ForcedModes ==
    Decided =>
        /\ qcfg.ForceParametric => qres.Strategy = "parametric"
        /\ (qcfg.ForceRetrieval /\ ~qcfg.ForceParametric)
              => qres.Strategy = "retrieval"

\* answered with both modes forced on a question that signals novelty
C5_Witness ==
    /\ qstate = "Answered"
    /\ qcfg.ForceParametric /\ qcfg.ForceRetrieval
    /\ DetectNovelty(question)
    /\ qres.Strategy = "parametric"

\* C6: with no mode forced and a question that signals novelty, the call
\* goes to Retrieval: NoveltySignal is true, Strategy is Retrieval, the
\* confidence is never requested and ConfidenceScore stays 0.
C6_NoveltyOverridesConfidence ==
    (Unforced /\ DetectNovelty(question) /\ qstate # "Start") =>
        /\ qres.Strategy = "retrieval"
        /\ qres.NovelDetected
        /\ qres.Confidence = 0
        /\ \A i \in 1..Len(qcalls) : qcalls[i] # "confidence"

\* answered from evidence on a novel question with no mode forced
C6_Witness ==
    /\ Unforced /\ DetectNovelty(question)
    /\ qstate = "Answered"
    /\ qres.SourcePMIDs # <<>>

\* C7: with no mode forced and no novelty, Strategy is Parametric exactly
\* when ConfidenceScore is at or above the threshold; then the answer is
\* the tentative answer of the confidence response and the confidence
\* request is the only collaborator request of the call.
C7_ConfidenceGate ==
    (Unforced /\ ~DetectNovelty(question) /\ Decided) =>
        /\ qres.Strategy = "parametric"
              <=> qres.Confidence >= qcfg.ConfidenceThreshold
        /\ qres.Strategy # "parametric" => qres.Strategy = "retrieval"
        /\ qres.Strategy = "parametric" =>
              /\ qcalls = <<"confidence">>
              /\ qstate = "Answered" => qres.Answer = qaux.tentative
              /\ qaux.tentative \in Answers

\* answered parametrically with the confidence exactly at the threshold
C7_Witness ==
    /\ Unforced /\ ~DetectNovelty(question)
    /\ qstate = "Answered"
    /\ qres.Strategy = "parametric"
    /\ qres.Confidence = qcfg.ConfidenceThreshold

QASteps == {<<"Start", "Parametric">>, <<"Start", "Retrieval">>,
            <<"Parametric", "Answered">>, <<"Retrieval", "Answered">>}
C9_StrategySetOnce ==
    [][ /\ qstate' # qstate => <<qstate, qstate'>> \in QASteps
        /\ qres.Strategy # "" => qres'.Strategy = qres.Strategy
        /\ qres'.Strategy # qres.Strategy =>
              /\ qres.Answer = "" /\ qres'.Answer = ""
              /\ qstate = "Start"
        /\ qaux'.strategySets <= 1
        /\ qres'.Answer # "" =>
              /\ qres'.Strategy # ""
              /\ qaux'.strategySets = 1
        /\ qstate' = "Start" <=> qres'.Strategy = ""
      ]_vars

\* answered through the zero-document fallback, Strategy assigned once
C9_Witness ==
    /\ qstate = "Answered"
    /\ qaux.strategySets = 1
    /\ qres.Strategy = "retrieval"
    /\ EmptySearch

====
